---------------------------- MODULE Spec2Model ----------------------------
(***************************************************************************)
(* A model of the display items (pymeasure/display/curves.py), the frames  *)
(* that drive them (pymeasure/display/widgets) and the instrument property *)
(* tables (pymeasure/instruments/{aimtti,keithley,thorlabs}).              *)
(*                                                                         *)
(* Numbers.  Coordinates and column values are integers (multiples of one  *)
(* tick); a quotient such as (x - xstart) / xstep is kept exact as a pair  *)
(* numerator/denominator, so the model describes the arithmetic of the     *)
(* code on values that the floating point format represents exactly.       *)
(***************************************************************************)
EXTENDS Integers, Sequences, FiniteSets, TLC

VARIABLES
    item,           \* the plot item (a ResultsImage, Results3DImage, ...)
    found,          \* the last call of item.find_img_index: arguments, result
    results,        \* the results object the item polls: its data snapshot
    call,           \* the last call of item.update_data and what it did
    frame,          \* the frame widget: its settings and the items of its plot
    instr,          \* the instrument driver object the adapter is bound to
    adapter,        \* the adapter: how many lines were written to it, read from it
    op              \* the last access of an instrument property and its outcome

dispVars == <<item, found, results, call, frame>>
instrVars == <<instr, adapter, op>>
vars == <<item, found, results, call, frame, instr, adapter, op>>

(***************************************************************************)
(* Bounds of the model.                                                    *)
(***************************************************************************)
MaxStep == 2        \* axis steps are 1..MaxStep ticks
MaxSpan == 2        \* an axis spans 0..MaxSpan ticks (end - start)
MaxOps == 2         \* property accesses of one run of the instrument model
MaxRows == 2        \* rows of the measurement snapshot
MaxSize == 2        \* BufferCurve.prepare is called with a size up to MaxSize
MaxSteps == 3       \* slow_voltage is called with 1..MaxSteps steps
MaxItems == 2       \* items in the plot of a frame
MaxCoord == 1       \* scene coordinates of the mouse are in 0..MaxCoord
MaxTicks == 2       \* timer ticks that connect dataUpdated to the target

(***************************************************************************)
(* Exact arithmetic.                                                       *)
(***************************************************************************)
Abs(n) == IF n < 0 THEN -n ELSE n

\* int(q) of Python for the quotient q = n/d, d > 0: truncation towards zero.
PyInt(n, d) == IF n >= 0 THEN n \div d ELSE -((-n) \div d)

\* np.ceil(q) for q = n/d, d > 0.
NpCeil(n, d) == -((-n) \div d)

\* The number of pixels of an axis: int(np.ceil((end - start) / step)) + 1.
axis_size_floor(start, end, step) == PyInt(end - start, step) + 1

axis_size(start, end, step) == PyInt(NpCeil(end - start, step), 1) + 1

(***************************************************************************)
(* ResultsImage.round_up / Results3DImage.round_up, on the quotient n/d    *)
(* (d > 0).  Python's q % 1 is q - floor(q), in [0, 1), for negative q     *)
(* too; it is >= 0.5 exactly when 2 * (n mod d) >= d.                      *)
(***************************************************************************)
round_up_half_down(n, d) ==
    IF 2 * (n % d) > d THEN PyInt(n, d) + 1 ELSE PyInt(n, d)

round_up(n, d) ==
    IF 2 * (n % d) >= d THEN PyInt(n, d) + 1 ELSE PyInt(n, d)

(***************************************************************************)
(* The geometry of an axis as results.procedure gives it: the attributes   *)
(* <axis>_start, <axis>_end, <axis>_step.  A sweep runs upwards in steps   *)
(* of at least one tick.                                                   *)
(***************************************************************************)
AxisGeoms(starts) ==
    { [start |-> s, end |-> s + span, step |-> st] :
        s \in starts, span \in 0..MaxSpan, st \in 1..MaxStep }

\* np.zeros(shape + (4,)): every pixel holds the colour (0, 0, 0, 0), which
\* is no colour of the ramp (those are opaque).
Blank == [ramp |-> "zeros", at |-> [num |-> 0, den |-> 1]]

(***************************************************************************)
(* ResultsImage.__init__ and Results3DImage.__init__: the fields of a new  *)
(* item.  x, y, z, var name columns of the snapshot; gx, gy, gz are the    *)
(* geometries the procedure holds for the axes x, y, z.                    *)
(***************************************************************************)
ResultsImage_init(x, y, z, gx, gy, force_reload) ==
    LET xsize == axis_size(gx.start, gx.end, gx.step)
        ysize == axis_size(gy.start, gy.end, gy.step)
    IN  [ class |-> "ResultsImage", x |-> x, y |-> y, z |-> z,
          xstart |-> gx.start, xend |-> gx.end, xstep |-> gx.step, xsize |-> xsize,
          ystart |-> gy.start, yend |-> gy.end, ystep |-> gy.step, ysize |-> ysize,
          img_data |-> [p \in (0..(ysize - 1)) \X (0..(xsize - 1)) |-> Blank],
          image |-> [p \in (0..(ysize - 1)) \X (0..(xsize - 1)) |-> Blank],
          force_reload |-> force_reload ]

Results3DImage_init(var, x, y, z, gx, gy, gz, force_reload) ==
    LET xsize == axis_size(gx.start, gx.end, gx.step)
        ysize == axis_size(gy.start, gy.end, gy.step)
        zsize == axis_size(gz.start, gz.end, gz.step)
    IN  [ class |-> "Results3DImage", var |-> var, x |-> x, y |-> y, z |-> z,
          xstart |-> gx.start, xend |-> gx.end, xstep |-> gx.step, xsize |-> xsize,
          ystart |-> gy.start, yend |-> gy.end, ystep |-> gy.step, ysize |-> ysize,
          zstart |-> gz.start, zend |-> gz.end, zstep |-> gz.step, zsize |-> zsize,
          shown_zidx |-> 0,
          img_data |-> [p \in (0..(zsize - 1)) \X (0..(ysize - 1)) \X (0..(xsize - 1))
                          |-> Blank],
          image |-> [p \in (0..(ysize - 1)) \X (0..(xsize - 1)) |-> Blank],
          force_reload |-> force_reload ]

(***************************************************************************)
(* find_img_index.  Each index defaults to the final pixel and is replaced *)
(* only when the coordinate lies within [start, end].                      *)
(***************************************************************************)
axis_index_clamp_low(c, start, end, step, size) ==
    IF start <= c /\ c <= end THEN round_up(c - start, step)
    ELSE IF c < start THEN 0 ELSE size - 1

\* The index computed without the range test.
axis_index_any(c, start, end, step, size) == round_up(c - start, step)

axis_index(c, start, end, step, size) ==
    IF start <= c /\ c <= end THEN round_up(c - start, step) ELSE size - 1

ResultsImage_find_img_index(self, x, y) ==
    << axis_index(x, self.xstart, self.xend, self.xstep, self.xsize),
       axis_index(y, self.ystart, self.yend, self.ystep, self.ysize) >>

Results3DImage_find_img_index(self, x, y, z) ==
    << axis_index(x, self.xstart, self.xend, self.xstep, self.xsize),
       axis_index(y, self.ystart, self.yend, self.ystep, self.ysize),
       axis_index(z, self.zstart, self.zend, self.zstep, self.zsize) >>

NoCall == [op |-> "none"]
NoItem == [class |-> "none"]
NoFrame == [class |-> "none"]

DispIdle ==
    /\ item = NoItem
    /\ found = NoCall
    /\ results = [data |-> <<>>]
    /\ call = [op |-> "none"]
    /\ frame = NoFrame

(***************************************************************************)
(* The measurement snapshot: results.data, a table of rows, each row a     *)
(* record of the columns.  A 2-D scan has the columns X, Y, V; a 3-D scan  *)
(* has Z as well.  The results object is outside the files at hand: per    *)
(* the specification it appends rows during a run and reloads the table    *)
(* in full on demand.                                                      *)
(***************************************************************************)
Is3D(class) == class \in {"Results3DCurve", "Results3DImage"}

Rows(class) ==
    IF Is3D(class)
    THEN { [X |-> 0, Y |-> 1, Z |-> z, V |-> v] : z \in {0, 1}, v \in {0, 1} }
    ELSE { [X |-> x, Y |-> 1, V |-> v] : x \in {0, 1}, v \in {0, 1} }

\* What results.reload() may find stored: the rows of the snapshot, and
\* after them a row written since the snapshot was last extended.
Stored(class, data) ==
    {data} \cup IF Len(data) < MaxRows
                THEN { Append(data, r) : r \in Rows(class) } ELSE {}

\* data[c].to_numpy()
Col(data, c) == [k \in 1..Len(data) |-> data[k][c]]

SeqMin(q) == CHOOSE m \in {q[k] : k \in DOMAIN q} : \A k \in DOMAIN q : m <= q[k]
SeqMax(q) == CHOOSE m \in {q[k] : k \in DOMAIN q} : \A k \in DOMAIN q : m >= q[k]

\* q[a:b] and q[a::step] of numpy for 0 <= a (indices from 0).
Slice(q, a, b) ==
    LET hi == IF b < Len(q) THEN b ELSE Len(q)
    IN  IF a >= hi THEN <<>> ELSE [k \in 1..(hi - a) |-> q[a + k]]

Stride(q, a, step) ==
    IF a >= Len(q) THEN <<>>
    ELSE [k \in 1..(((Len(q) - 1 - a) \div step) + 1) |-> q[a + 1 + (k - 1) * step]]

(***************************************************************************)
(* The quotient n / d of two numpy floats, kept exact: a reduced fraction, *)
(* or nan (0/0), inf, -inf (n/0).  No exception is raised.                 *)
(***************************************************************************)
RECURSIVE GCD(_, _)
GCD(a, b) == IF b = 0 THEN a ELSE GCD(b, a % b)

NpDiv(n, d) ==
    IF d = 0 THEN [num |-> IF n > 0 THEN 1 ELSE IF n < 0 THEN -1 ELSE 0, den |-> 0]
    ELSE LET g == GCD(Abs(n), Abs(d))
             sg == IF d < 0 THEN -1 ELSE 1
         IN  [num |-> sg * (n \div g), den |-> sg * (d \div g)]

\* self.cm.map(x, mode='float'): the colour of the fixed ramp at x.
colormap(x) == [ramp |-> "viridis", at |-> x]

\* a[i] of numpy along an axis of `size` entries: a negative index counts
\* from the end; -1 stands for an index out of bounds (IndexError).
NpIndex(i, size) ==
    IF 0 <= i /\ i < size THEN i
    ELSE IF -size <= i /\ i < 0 THEN i + size ELSE -1

\* np.transpose(img, axes=(1, 0, 2)) of a (ysize, xsize) array of colours.
Transposed(img, ysize, xsize) ==
    [p \in (0..(xsize - 1)) \X (0..(ysize - 1)) |-> img[<<p[2], p[1]>>]]

\* The first lines of every update_data: reload if force_reload, then read
\* results.data.  The accesses to the results object, in order.
update_data_reads_always_reload(self) == <<"reload", "data">>

update_data_reads(self) ==
    IF self.force_reload THEN <<"reload", "data">> ELSE <<"data">>

\* try: dataUpdated.emit(x[-1], y[-1]) except: dataUpdated.emit(0, 0)
final_point(self, data) ==
    IF Len(data) > 0
    THEN << [x |-> data[Len(data)][self.x], y |-> data[Len(data)][self.y]] >>
    ELSE << [x |-> 0, y |-> 0] >>

(***************************************************************************)
(* ResultsCurve.update_data and Results3DCurve.update_data: setData with   *)
(* the columns of the snapshot.                                            *)
(***************************************************************************)
ResultsCurve_init(x, y, force_reload) ==
    [ class |-> "ResultsCurve", x |-> x, y |-> y, force_reload |-> force_reload,
      shown |-> [xs |-> <<>>, ys |-> <<>>] ]

Results3DCurve_init(z, var, gz, force_reload) ==
    [ class |-> "Results3DCurve", z |-> z, var |-> var,
      zstart |-> gz.start, zend |-> gz.end, zstep |-> gz.step,
      zsize |-> axis_size(gz.start, gz.end, gz.step),
      force_reload |-> force_reload, shown_xid |-> 0, shown_yid |-> 0,
      shown |-> [xs |-> <<>>, ys |-> <<>>] ]

\* setData extending the series already shown instead of replacing it.
ResultsCurve_update_data_extend(self, data) ==
    [ item |-> [self EXCEPT !.shown = [xs |-> @.xs \o Col(data, self.x),
                                       ys |-> @.ys \o Col(data, self.y)]],
      raised |-> "none", emitted |-> <<>>, ramp |-> <<>> ]

ResultsCurve_update_data(self, data) ==
    [ item |-> [self EXCEPT !.shown = [xs |-> Col(data, self.x),
                                       ys |-> Col(data, self.y)]],
      raised |-> "none", emitted |-> <<>>, ramp |-> <<>> ]

Results3DCurve_update_data(self, data) ==
    LET a == self.shown_xid + self.shown_yid * self.zsize
    IN  [ item |-> [self EXCEPT !.shown =
                       [xs |-> Slice(Col(data, self.z), a, self.zsize),
                        ys |-> Slice(Col(data, self.var), a, self.zsize)]],
          raised |-> "none", emitted |-> <<>>, ramp |-> <<>> ]

(***************************************************************************)
(* ResultsImage.update_data.  zmin and zmax are taken over the z column;   *)
(* then row by row the pixel the row is binned to gets the colour of       *)
(* (row[z] - zmin) / (zmax - zmin); then setImage and the final emit.      *)
(***************************************************************************)
\* The rows from k on, applied to the state st = [img, ramp, raised].
RECURSIVE ResultsImage_rows(_, _, _, _)
ResultsImage_rows(self, data, k, st) ==
    IF k > Len(data) \/ st.raised # "none" THEN st
    ELSE LET row == data[k]
             zmin == SeqMin(Col(data, self.z))
             zmax == SeqMax(Col(data, self.z))
             idx == ResultsImage_find_img_index(self, row[self.x], row[self.y])
             xi == NpIndex(idx[1], self.xsize)
             yi == NpIndex(idx[2], self.ysize)
             arg == NpDiv(row[self.z] - zmin, zmax - zmin)
         IN  ResultsImage_rows(self, data, k + 1,
                IF xi < 0 \/ yi < 0
                THEN [st EXCEPT !.ramp = Append(@, arg), !.raised = "IndexError"]
                ELSE [st EXCEPT !.ramp = Append(@, arg),
                                !.img[<<yi, xi>>] = colormap(arg)])

ResultsImage_update_data(self, data) ==
    LET st == ResultsImage_rows(self, data, 1,
                  [img |-> self.img_data, ramp |-> <<>>, raised |-> "none"])
    IN  IF st.raised # "none"
        THEN [ item |-> [self EXCEPT !.img_data = st.img],
               raised |-> st.raised, emitted |-> <<>>, ramp |-> st.ramp ]
        ELSE [ item |-> [self EXCEPT !.img_data = st.img,
                            !.image = Transposed(st.img, self.ysize, self.xsize)],
               raised |-> "none", emitted |-> final_point(self, data),
               ramp |-> st.ramp ]

(***************************************************************************)
(* Results3DImage.update_data.  var_color takes the minimum and maximum of *)
(* the var column over the rows zidx, zidx + zsize, ... of the snapshot;   *)
(* numpy raises ValueError for the minimum of an empty array.              *)
(***************************************************************************)
RECURSIVE Results3DImage_rows(_, _, _, _)
Results3DImage_rows(self, data, k, st) ==
    IF k > Len(data) \/ st.raised # "none" THEN st
    ELSE LET row == data[k]
             idx == Results3DImage_find_img_index(self, row[self.x], row[self.y],
                                                  row[self.z])
             xi == NpIndex(idx[1], self.xsize)
             yi == NpIndex(idx[2], self.ysize)
             zi == NpIndex(idx[3], self.zsize)
             part == Stride(Col(data, self.var), idx[3], self.zsize)
         IN  Results3DImage_rows(self, data, k + 1,
                IF idx[3] < 0 \/ part = <<>>
                THEN [st EXCEPT !.raised = "ValueError"]
                ELSE LET arg == NpDiv(row[self.var] - SeqMin(part),
                                      SeqMax(part) - SeqMin(part))
                     IN  IF xi < 0 \/ yi < 0 \/ zi < 0
                         THEN [st EXCEPT !.ramp = Append(@, arg),
                                         !.raised = "IndexError"]
                         ELSE [st EXCEPT !.ramp = Append(@, arg),
                                         !.img[<<zi, yi, xi>>] = colormap(arg)])

\* np.transpose(self.img_data[self.shown_zidx], axes=(1, 0, 2))
Results3DImage_shown(self, img) ==
    [p \in (0..(self.xsize - 1)) \X (0..(self.ysize - 1)) |->
        img[<<self.shown_zidx, p[2], p[1]>>]]

Results3DImage_update_data(self, data) ==
    LET st == Results3DImage_rows(self, data, 1,
                  [img |-> self.img_data, ramp |-> <<>>, raised |-> "none"])
    IN  IF st.raised # "none"
        THEN [ item |-> [self EXCEPT !.img_data = st.img],
               raised |-> st.raised, emitted |-> <<>>, ramp |-> st.ramp ]
        ELSE IF NpIndex(self.shown_zidx, self.zsize) < 0
        THEN [ item |-> [self EXCEPT !.img_data = st.img],
               raised |-> "IndexError", emitted |-> <<>>, ramp |-> st.ramp ]
        ELSE [ item |-> [self EXCEPT !.img_data = st.img,
                            !.image = Results3DImage_shown(self, st.img)],
               raised |-> "none", emitted |-> final_point(self, data),
               ramp |-> st.ramp ]

\* item.update_data() on the snapshot data, by the class of the item.
update_data(self, data) ==
    CASE self.class = "ResultsCurve" -> ResultsCurve_update_data(self, data)
      [] self.class = "Results3DCurve" -> Results3DCurve_update_data(self, data)
      [] self.class = "ResultsImage" -> ResultsImage_update_data(self, data)
      [] OTHER -> Results3DImage_update_data(self, data)

(***************************************************************************)
(* Instrument drivers.                                                     *)
(*                                                                         *)
(* Python values are tagged: a number n/1000 (numbers are counted in       *)
(* thousandths, which holds 0.3, 0.01 and 9999.999 exactly), a string, a   *)
(* bool, or a member of TF930MasurementFunctions.  As in Python, True and  *)
(* False compare equal to 1 and 0.                                         *)
(***************************************************************************)
Num(k)   == [t |-> "num",  n |-> k, s |-> ""]       \* the number k/1000
Whole(i)   == Num(i * 1000)
Str(s)   == [t |-> "str",  n |-> 0, s |-> s]
Bool(b)  == [t |-> "bool", n |-> IF b THEN 1000 ELSE 0, s |-> ""]
Enum(i)  == [t |-> "enum", n |-> i * 1000, s |-> ""]  \* the member of value i
None     == [t |-> "none", n |-> 0, s |-> ""]

IsNumber(v) == v.t \in {"num", "bool"}

\* a == b of Python
PyEq(a, b) ==
    \/ IsNumber(a) /\ IsNumber(b) /\ a.n = b.n
    \/ a.t = b.t /\ a.t \in {"str", "enum", "none"} /\ a.n = b.n /\ a.s = b.s

(***************************************************************************)
(* The containers a property gives as `values`.                            *)
(***************************************************************************)
PyRange(lo, hi)    == [kind |-> "range", lo |-> lo, hi |-> hi, elems |-> {}]
PyBounds(lo, hi)   == [kind |-> "bounds", lo |-> lo, hi |-> hi, elems |-> {}]
PyList(elems)      == [kind |-> "list", lo |-> 0, hi |-> 0, elems |-> elems]
PyDict(pairs)      == [kind |-> "dict", lo |-> 0, hi |-> 0, elems |-> pairs]
PyEnum(lo, hi)     == [kind |-> "enum", lo |-> lo, hi |-> hi, elems |-> {}]
NoValues           == [kind |-> "none", lo |-> 0, hi |-> 0, elems |-> {}]

\* TF930MasurementFunctions: the members have the values 0..9.
TF930MasurementFunctions == PyEnum(0, 9)

(***************************************************************************)
(* The property tables.  get and set are the command templates as written  *)
(* in the source; fmt is the conversion of the set template (%i, %g, %s).  *)
(* strip names the units get_process removes from the reply; xonxoff tells *)
(* that preprocess_reply removes the XON/XOFF characters.                  *)
(***************************************************************************)
Prop(get, set, fmt, validator, values, map_values, set_process, xonxoff, strip, cast) ==
    [ get |-> get, set |-> set, fmt |-> fmt, validator |-> validator,
      values |-> values, map_values |-> map_values, set_process |-> set_process,
      xonxoff |-> xonxoff, strip |-> strip, cast |-> cast ]

NoCmd == "(none)"
ResultUnits == {"Hz", "s", "%"}

TF930_threshold_ac_wide ==
    Prop("TO?", "TO%i", "i", "strict_discrete_set", PyRange(-60, 62), FALSE,
         "none", FALSE, {"mV"}, "float")

TF930_threshold_ac ==
    Prop("TO?", "TO%i", "i", "strict_discrete_set", PyRange(-60, 61), FALSE,
         "none", FALSE, {"mV"}, "float")

TF930_measurement_time_shifted ==
    Prop(NoCmd, "M%i", "i", "strict_discrete_set",
         PyDict({<<Num(300), Whole(0)>>, <<Whole(1), Whole(1)>>, <<Whole(10), Whole(2)>>,
                 <<Whole(100), Whole(3)>>}),
         TRUE, "none", FALSE, {}, "float")

TF930_measurement_time ==
    Prop(NoCmd, "M%i", "i", "strict_discrete_set",
         PyDict({<<Num(300), Whole(1)>>, <<Whole(1), Whole(2)>>, <<Whole(10), Whole(3)>>,
                 <<Whole(100), Whole(4)>>}),
         TRUE, "none", FALSE, {}, "float")

TF930_props ==
    [ measurement_function |->
        Prop(NoCmd, "F%i", "i", "strict_discrete_set", TF930MasurementFunctions,
             FALSE, "value", FALSE, {}, "float"),
      threshold_ac |-> TF930_threshold_ac,
      threshold_dc |->
        Prop("TT?", "TT%i", "i", "strict_discrete_set", PyRange(-300, 2101), FALSE,
             "none", FALSE, {"mV"}, "float"),
      measurement_time |-> TF930_measurement_time,
      every_result_query |->
        Prop("E?", NoCmd, "", "none", NoValues, FALSE, "none", FALSE,
             ResultUnits, "float"),
      continuous_result_query |->
        Prop("C?", NoCmd, "", "none", NoValues, FALSE, "none", FALSE,
             ResultUnits, "float"),
      next_result_query |->
        Prop("N?", NoCmd, "", "none", NoValues, FALSE, "none", FALSE,
             ResultUnits, "float"),
      current_result_query |->
        Prop("?", NoCmd, "", "none", NoValues, FALSE, "none", FALSE,
             ResultUnits, "float"),
      inputACoupling |->
        Prop(NoCmd, "%s", "s", "strict_discrete_set",
             PyList({Str("AC"), Str("DC")}), FALSE, "none", FALSE, {}, "float"),
      inputAImpedance |->
        Prop(NoCmd, "%s", "s", "strict_discrete_set",
             PyDict({<<Str("1MOhm"), Str("Z1")>>, <<Str("50Ohm"), Str("Z5")>>}),
             TRUE, "none", FALSE, {}, "float"),
      inputAAttenuation |->
        Prop(NoCmd, "%s", "s", "strict_discrete_set",
             PyDict({<<Str("5:1"), Str("A5")>>, <<Str("1:1"), Str("A1")>>}),
             TRUE, "none", FALSE, {}, "float"),
      edge_trigger |->
        Prop(NoCmd, "%s", "s", "strict_discrete_set",
             PyDict({<<Str("rising"), Str("ER")>>, <<Str("falling"), Str("EF")>>}),
             TRUE, "none", FALSE, {}, "float"),
      low_pass_filter_enable |->
        Prop(NoCmd, "%s", "s", "strict_discrete_set",
             PyDict({<<Bool(TRUE), Str("FI")>>, <<Bool(FALSE), Str("FO")>>}),
             TRUE, "none", FALSE, {}, "float") ]

\* The controls of a Keithley 6482 channel all strip XON/XOFF from the reply.
ChControl(get, set, fmt, validator, values, cast) ==
    Prop(get, set, fmt, validator, values, FALSE, "none", TRUE, {}, cast)

OnOff == PyList({Bool(TRUE), Bool(FALSE)})
Volts == PyBounds(-30000, 30000)

Keithley6482Chnanel_props ==
    [ sourcing_mode |->
        ChControl("SOUR{ch}:VOLT:MODE?", "SOUR{ch}:VOLT:MODE %s", "s",
                  "strict_discrete_set",
                  PyList({Str("FIX"), Str("LIST"), Str("SWE")}), "str"),
      settling_time |->
        ChControl("SOUR{ch}:DEL?", "SOUR{ch}:DEL %g", "g", "strict_range",
                  PyBounds(0, 9999999), "float"),
      current |->
        Prop("FORM:ELEM CURR{ch}; :READ?", NoCmd, "", "none", NoValues, FALSE,
             "none", TRUE, {}, "float"),
      current_autorange |->
        ChControl("SENS{ch}:CURR:RANG:AUTO?", "SENS{ch}:CURR:RANG:AUTO %i", "i",
                  "strict_discrete_set", OnOff, "bool"),
      ground_connect |->
        ChControl("SOUR{ch}:GCON?", "SOUR{ch}:GCON %i", "i",
                  "strict_discrete_set", OnOff, "bool"),
      output |->
        ChControl("OUTP{ch}?", "OUTP{ch} %i", "i", "strict_discrete_set", OnOff,
                  "bool"),
      auto_delay |->
        ChControl("SOUR{ch}:DEL:AUTO?", "SOUR{ch}:DEL:AUTO %i", "i",
                  "strict_discrete_set", OnOff, "bool"),
      voltage |->
        ChControl("SOUR{ch}:VOLT?", "SOUR{ch}:VOLT %g", "g", "strict_range", Volts,
                  "float"),
      start |->
        ChControl("SOUR{ch}:VOLT:STAR?", "SOUR{ch}:VOLT:STAR %g", "g",
                  "strict_range", Volts, "float"),
      stop |->
        ChControl("SOUR{ch}:VOLT:STOP?", "SOUR{ch}:VOLT:STOP %g", "g",
                  "strict_range", Volts, "float"),
      step |->
        ChControl("SOUR{ch}:VOLT:STEP?", "SOUR{ch}:VOLT:STEP %g", "g",
                  "strict_range", Volts, "float"),
      points |->
        ChControl("SOUR{ch}:SWE:POIN?", "SOUR{ch}:SWE:POIN %i", "i",
                  "strict_discrete_set", PyRange(1, 3000), "int"),
      center |->
        ChControl("SOUR{ch}:VOLT:CENT?", "SOUR{ch}:VOLT:CENT %g", "g",
                  "strict_range", Volts, "float"),
      span |->
        ChControl("SOUR{ch}:VOLT:SPAN?", "SOUR{ch}:VOLT:SPAN %g", "g",
                  "strict_range", Volts, "float"),
      spacing |->
        ChControl("SOUR{ch}:SWE:SPAC?", "SOUR{ch}:SWE:SPAC %s", "s",
                  "strict_discrete_set", PyList({Str("LIN"), Str("LOG")}), "str"),
      ranging |->
        ChControl("SOUR{ch}:SWE:RANG?", "SOUR{ch}:SWE:RANG %s", "s",
                  "strict_discrete_set",
                  PyList({Str("BEST"), Str("AUTO"), Str("FIX")}), "str"),
      direction |->
        ChControl("SOUR{ch}:SWE:DIR?", "SOUR{ch}:SWE:DIR %s", "s",
                  "strict_discrete_set", PyList({Str("UP"), Str("DOWN")}), "str"),
      median_filter_enable |->
        ChControl("SENS{ch}:MED:STAT?", "SENS{ch}:MED:STAT %i", "i",
                  "strict_discrete_set", OnOff, "bool"),
      speed_accuracy |->
        ChControl("SENS{ch}:CURR:NPLC?", "SENS{ch}:CURR:NPLC %g", "g",
                  "strict_range", PyBounds(10, 10000), "float"),
      average_filter_enable |->
        ChControl("SENS{ch}:AVER:STAT?", "SENS{ch}:AVER:STAT %i", "i",
                  "strict_discrete_set", OnOff, "bool"),
      average_filter_count |->
        ChControl("SENS{ch}:AVER:COUN?", "SENS{ch}:AVER:COUN %i", "i",
                  "strict_discrete_set", PyRange(1, 101), "float"),
      average_filter_type |->
        ChControl("SENS{ch}:AVER:TCON?", "SENS{ch}:AVER:TCON %s", "s",
                  "strict_discrete_set", PyList({Str("MOV"), Str("REP")}), "str"),
      advanced_filter_enable |->
        ChControl("SENS{ch}:AVER:ADV?", "SENS{ch}:AVER:ADV %i", "i",
                  "strict_discrete_set", OnOff, "bool") ]

Keithley6482_props ==
    [ trigger_count |->
        Prop("TRIG:COUN?", "TRIG:COUN %i", "i", "strict_discrete_set",
             PyRange(1, 3000), FALSE, "none", FALSE, {}, "float"),
      arm_count |->
        Prop("ARM:COUN?", "ARM:COUN %i", "i", "strict_discrete_set",
             PyRange(1, 3000), FALSE, "none", FALSE, {}, "float") ]

PM101U_power_as_setting ==
    Prop(NoCmd, "MEAS:SCAL:POW?", "s", "none", NoValues, FALSE, "none", FALSE, {},
         "float")

PM101U_power ==
    Prop("MEAS:SCAL:POW?", NoCmd, "", "none", NoValues, FALSE, "none", FALSE, {},
         "float")

PM101U_props ==
    [ power |-> PM101U_power,
      wavelength |->
        Prop("SENS:CORR:WAV?", "SENS:CORR:WAV %g", "g", "none", NoValues, FALSE,
             "none", FALSE, {}, "float"),
      dark_offset |->
        Prop("SENS:CORR:COLL:ZERO:MAGN?", NoCmd, "", "none", NoValues, FALSE,
             "none", FALSE, {}, "float") ]

(***************************************************************************)
(* The property machinery of the Instrument and Channel base classes.      *)
(* Their source is not part of the files at hand; it is modelled from the  *)
(* specification: a validator (range or enumeration) applied before        *)
(* transmission, a value mapping, one adapter round trip per get or set,   *)
(* and a post-processing and cast step applied to the reply text.          *)
(***************************************************************************)
\* value in values, for the containers above
Contains(values, v) ==
    CASE values.kind = "range" ->
            /\ IsNumber(v)
            /\ v.n % 1000 = 0
            /\ values.lo <= v.n \div 1000 /\ v.n \div 1000 < values.hi
      [] values.kind = "list" -> \E e \in values.elems : PyEq(e, v)
      [] values.kind = "dict" -> \E e \in values.elems : PyEq(e[1], v)
      [] values.kind = "enum" ->
            v.t = "enum" /\ values.lo * 1000 <= v.n /\ v.n <= values.hi * 1000
      [] OTHER -> FALSE

strict_discrete_set(v, values) == Contains(values, v)

strict_range(v, values) == IsNumber(v) /\ values.lo <= v.n /\ v.n <= values.hi

Validates(p, v) ==
    CASE p.validator = "strict_discrete_set" -> strict_discrete_set(v, p.values)
      [] p.validator = "strict_range" -> strict_range(v, p.values)
      [] OTHER -> TRUE

\* set_process = lambda v: v.value, then the mapping values[value]
Mapped(p, v) ==
    LET w == IF p.set_process = "value" THEN Num(v.n) ELSE v
    IN  IF p.map_values /\ p.values.kind = "dict"
        THEN (CHOOSE e \in p.values.elems : PyEq(e[1], w))[2]
        ELSE w

Pow10(k) == IF k = 0 THEN 1 ELSE IF k = 1 THEN 10 ELSE 100

\* "%g": six significant digits.  n counts thousandths and |n| < 10^8, so
\* at most two digits are dropped, rounding to the nearest (a tie to even).
FmtG(n) ==
    LET a == Abs(n)
        k == IF a < 1000000 THEN 0 ELSE IF a < 10000000 THEN 1 ELSE 2
        q == a \div Pow10(k)
        r == a % Pow10(k)
        up == 2 * r > Pow10(k) \/ (2 * r = Pow10(k) /\ q % 2 = 1)
        m == (IF up THEN q + 1 ELSE q) * Pow10(k)
    IN  IF n < 0 THEN -m ELSE m

\* The text that replaces the conversion of the set template.
Formattable(fmt, v) == fmt = "s" \/ IsNumber(v)

Formatted(fmt, v) ==
    CASE fmt = "i" -> [f |-> "i", n |-> PyInt(v.n, 1000), s |-> ""]
      [] fmt = "g" -> [f |-> "g", n |-> FmtG(v.n), s |-> ""]
      [] OTHER -> [f |-> "s", n |-> v.n, s |-> v.s]

NoArg == [f |-> "", n |-> 0, s |-> ""]

\* A line of text on the wire: the template, the channel id that replaces
\* {ch} (Channel.write), and the formatted argument.
Line(template, ch, arg) == [template |-> template, ch |-> ch, arg |-> arg]

\* The reply of the instrument: a body (a number or a word), a unit suffix,
\* and whether XON/XOFF characters are mixed into it.
Replies ==
    { [ctl |-> c, body |-> Num(1500), unit |-> u] : c \in BOOLEAN, u \in {"", "mV"} }
    \cup { [ctl |-> FALSE, body |-> Num(1500), unit |-> "Hz"],
           [ctl |-> FALSE, body |-> Whole(0), unit |-> ""],
           [ctl |-> TRUE, body |-> Str("FIX"), unit |-> ""] }

CastError == [t |-> "CastError", n |-> 0, s |-> ""]

\* preprocess_reply, get_process and cast, applied to the reply text.
Processed(p, reply) ==
    LET ctl  == reply.ctl /\ ~p.xonxoff
        unit == IF reply.unit \in p.strip THEN "" ELSE reply.unit
        b    == reply.body
        numeric == ~ctl /\ unit = "" /\ b.t = "num"
    IN  CASE p.cast = "str" -> [t |-> "str", n |-> b.n, s |-> b.s]
          [] p.cast = "bool" -> IF numeric THEN Bool(b.n # 0) ELSE CastError
          [] p.cast = "int" ->
                IF numeric /\ b.n % 1000 = 0 THEN b ELSE CastError
          [] OTHER -> IF numeric THEN b ELSE CastError

(***************************************************************************)
(* The driver objects and the properties each of them has.  A Keithley6482 *)
(* has the channels "1" and "2".                                           *)
(***************************************************************************)
Instruments == {"TF930", "Keithley6482", "PM101U"}

PropsOf(owner) ==
    CASE owner = "TF930" -> TF930_props
      [] owner = "Keithley6482" -> Keithley6482_props
      [] owner = "Keithley6482Chnanel" -> Keithley6482Chnanel_props
      [] OTHER -> PM101U_props

\* The (owner, channel id, property name) that can be accessed on a driver.
Accesses(i) ==
    { [owner |-> i, ch |-> "", name |-> n] : n \in DOMAIN PropsOf(i) }
    \cup
    IF i = "Keithley6482"
    THEN { [owner |-> "Keithley6482Chnanel", ch |-> c, name |-> n] :
             c \in {"1", "2"}, n \in DOMAIN Keithley6482Chnanel_props }
    ELSE {}

PropOf(a) == PropsOf(a.owner)[a.name]

\* The values a test assigns to a property: the edges of its range and
\* values of the wrong kind.
Words(ws) == { Str(w) : w \in ws \cup {"BAD"} }

Probes(name) ==
    CASE name = "threshold_ac" ->
            {Whole(-61), Whole(-60), Whole(0), Num(500), Whole(60), Whole(61)}
      [] name = "threshold_dc" -> {Whole(-301), Whole(-300), Whole(2100), Whole(2101)}
      [] name = "measurement_time" ->
            {Num(0), Num(300), Whole(1), Whole(2), Whole(10), Whole(100), Whole(1000)}
      [] name = "measurement_function" ->
            {Enum(0), Enum(7), Enum(9), Whole(7), Str("AInputCount")}
      [] name \in {"voltage", "start", "stop", "step", "center", "span"} ->
            {Num(-30001), Whole(-30), Num(1500), Whole(30), Num(30001), Str("BAD")}
      [] name = "settling_time" ->
            {Num(-1), Num(0), Num(2), Num(1234567), Num(9999999), Num(10000000)}
      [] name = "speed_accuracy" -> {Num(9), Num(10), Whole(10), Num(10001)}
      [] name \in {"points", "trigger_count", "arm_count"} ->
            {Whole(0), Whole(1), Num(1500), Whole(2999), Whole(3000)}
      [] name = "average_filter_count" -> {Whole(0), Whole(1), Whole(100), Whole(101)}
      [] name \in {"current_autorange", "ground_connect", "output", "auto_delay",
                   "median_filter_enable", "average_filter_enable",
                   "advanced_filter_enable", "low_pass_filter_enable"} ->
            {Bool(TRUE), Bool(FALSE), Whole(2), Str("ON")}
      [] name = "wavelength" -> {Num(633000), Num(1064500), Str("BAD")}
      [] name = "inputACoupling" -> Words({"AC", "DC"})
      [] name = "inputAImpedance" -> Words({"1MOhm", "50Ohm"})
      [] name = "inputAAttenuation" -> Words({"5:1", "1:1"})
      [] name = "edge_trigger" -> Words({"rising", "falling"})
      [] name = "sourcing_mode" -> Words({"FIX", "LIST", "SWE"})
      [] name = "spacing" -> Words({"LIN", "LOG"})
      [] name = "ranging" -> Words({"BEST", "AUTO", "FIX"})
      [] name = "direction" -> Words({"UP", "DOWN"})
      [] name = "average_filter_type" -> Words({"MOV", "REP"})
      [] OTHER -> {Whole(1)}

(***************************************************************************)
(* A property access.  op is the last access: its number, what was asked,  *)
(* how it ended, the adapter traffic it caused in order (lines written,    *)
(* replies read) and the value a get returned.                             *)
(***************************************************************************)
NoOp ==
    [ id |-> 0, kind |-> "none", owner |-> "", ch |-> "", name |-> "",
      arg |-> None, outcome |-> "ok", io |-> <<>>, result |-> None ]

Written(line) == [dir |-> "write", text |-> line]
Read(reply)   == [dir |-> "read", text |-> reply]

\* The number of writes (dir = "write") or reads in the traffic io.
Count(io, dir) == Cardinality({ k \in DOMAIN io : io[k].dir = dir })

InstrIdle ==
    /\ instr = "none"
    /\ adapter = [writes |-> 0, reads |-> 0]
    /\ op = NoOp

InitInstr ==
    /\ instr \in Instruments
    /\ adapter = [writes |-> 0, reads |-> 0]
    /\ op = NoOp
    /\ DispIdle

\* What the setter of property a does with value v: how it ends and the
\* traffic it causes.
fset(a, v) ==
    LET p == PropOf(a)
    IN  IF p.set = NoCmd THEN [outcome |-> "LookupError", io |-> <<>>]
        ELSE IF ~Validates(p, v)
        THEN [outcome |-> "ValidationError", io |-> <<>>]
        ELSE IF ~Formattable(p.fmt, Mapped(p, v))
        THEN [outcome |-> "TypeError", io |-> <<>>]
        ELSE [outcome |-> "ok",
              io |-> << Written(Line(p.set, a.ch,
                                     Formatted(p.fmt, Mapped(p, v)))) >>]

\* What the getter of property a does when the instrument answers reply:
\* it writes the query, reads the reply, processes and casts it.
fget(a, reply) ==
    LET p == PropOf(a)
    IN  IF p.get = NoCmd
        THEN [outcome |-> "LookupError", io |-> <<>>, result |-> None]
        ELSE [outcome |-> IF Processed(p, reply) = CastError THEN "CastError"
                          ELSE "ok",
              io |-> << Written(Line(p.get, a.ch, NoArg)), Read(reply) >>,
              result |-> IF Processed(p, reply) = CastError THEN None
                         ELSE Processed(p, reply)]

\* instrument.<name> = v
SetProperty ==
    /\ op.id < MaxOps
    /\ \E a \in Accesses(instr) : \E v \in Probes(a.name) :
          LET r == fset(a, v)
          IN  /\ op' = [ id |-> op.id + 1, kind |-> "set", owner |-> a.owner,
                         ch |-> a.ch, name |-> a.name, arg |-> v,
                         outcome |-> r.outcome, io |-> r.io, result |-> None ]
              /\ adapter' = [ writes |-> adapter.writes + Count(r.io, "write"),
                              reads |-> adapter.reads + Count(r.io, "read") ]
    /\ UNCHANGED <<instr, dispVars>>

\* instrument.<name>
GetProperty ==
    /\ op.id < MaxOps
    /\ \E a \in Accesses(instr) : \E reply \in Replies :
          LET r == fget(a, reply)
          IN  /\ op' = [ id |-> op.id + 1, kind |-> "get", owner |-> a.owner,
                         ch |-> a.ch, name |-> a.name, arg |-> None,
                         outcome |-> r.outcome, io |-> r.io, result |-> r.result ]
              /\ adapter' = [ writes |-> adapter.writes + Count(r.io, "write"),
                              reads |-> adapter.reads + Count(r.io, "read") ]
    /\ UNCHANGED <<instr, dispVars>>

NextInstr ==
    \/ SetProperty
    \/ GetProperty

SpecInstr == InitInstr /\ [][NextInstr]_vars

(***************************************************************************)
(* Keithley6482Chnanel.slow_voltage and the two counts of the Keithley6482.*)
(***************************************************************************)
\* np.linspace(a, b, steps) for steps >= 1, on thousandths: a alone for one
\* step, else a + k * (b - a) / (steps - 1) for k = 0..steps - 1.
linspace(a, b, steps) ==
    IF steps = 1 THEN << a >>
    ELSE [k \in 1..steps |-> a + ((k - 1) * (b - a)) \div (steps - 1)]

ChAccess(ch, name) == [owner |-> "Keithley6482Chnanel", ch |-> ch, name |-> name]

\* `self.sourcing_mode == "FIX"` on the value the getter returned.
is_fixed_any(mode) == TRUE

is_fixed(mode) == PyEq(mode, Str("FIX"))

\* for v in voltages: self.voltage = v -- from the k-th value on, after
\* the traffic io; the first setter that raises ends the loop.
RECURSIVE set_voltages(_, _, _, _)
set_voltages(ch, voltages, k, io) ==
    IF k > Len(voltages) THEN [outcome |-> "ok", io |-> io]
    ELSE LET s == fset(ChAccess(ch, "voltage"), Num(voltages[k]))
         IN  IF s.outcome # "ok" THEN [outcome |-> s.outcome, io |-> io]
             ELSE set_voltages(ch, voltages, k + 1, io \o s.io)

\* slow_voltage(voltage, steps=steps) on channel ch, when the instrument
\* answers the mode query with rm and the voltage queries with rv.
slow_voltage(ch, voltage, steps, rm, rv) ==
    LET mode == fget(ChAccess(ch, "sourcing_mode"), rm)
        now  == fget(ChAccess(ch, "voltage"), rv)
    IN  IF ~is_fixed(mode.result)
        THEN [outcome |-> "ValueError", io |-> mode.io]
        ELSE IF now.outcome # "ok"
        THEN [outcome |-> now.outcome, io |-> mode.io \o now.io]
        ELSE IF PyEq(now.result, voltage)
        THEN [outcome |-> "ok", io |-> mode.io \o now.io]
        ELSE set_voltages(ch, linspace(now.result.n, voltage.n, steps), 1,
                          mode.io \o now.io \o now.io)

(***************************************************************************)
(* The Keithley specification: a Keithley6482 whose counts are assigned    *)
(* and whose channels are ramped with slow_voltage.  adapter.sent holds    *)
(* the count last sent with TRIG:COUN and with ARM:COUN (0: none yet).     *)
(***************************************************************************)
ModeReplies ==
    { [ctl |-> TRUE, body |-> Str("FIX"), unit |-> ""],
      [ctl |-> FALSE, body |-> Str("SWE"), unit |-> ""],
      [ctl |-> FALSE, body |-> Str("LIST"), unit |-> ""] }

VoltReplies ==
    { [ctl |-> TRUE, body |-> Whole(0), unit |-> ""],
      [ctl |-> FALSE, body |-> Whole(6), unit |-> ""],
      [ctl |-> FALSE, body |-> Whole(6), unit |-> "mV"] }

Targets == { Whole(-36), Whole(0), Whole(6), Whole(30), Whole(36), Whole(60) }

InitKeithley ==
    /\ instr = "Keithley6482"
    /\ adapter = [sent |-> [trigger_count |-> 0, arm_count |-> 0]]
    /\ op = NoOp
    /\ DispIdle

\* instrument.trigger_count = v, instrument.arm_count = v
SetCount ==
    /\ \E name \in {"trigger_count", "arm_count"} : \E v \in Probes(name) :
          LET a == [owner |-> "Keithley6482", ch |-> "", name |-> name]
              r == fset(a, v)
          IN  /\ op' = [ id |-> 0, kind |-> "set", owner |-> a.owner, ch |-> "",
                         name |-> name, arg |-> v, outcome |-> r.outcome,
                         io |-> r.io, result |-> None ]
              /\ adapter' = IF r.outcome = "ok"
                            THEN [adapter EXCEPT !.sent[name] = r.io[1].text.arg.n]
                            ELSE adapter
    /\ UNCHANGED <<instr, dispVars>>

\* instrument.channel<ch>.slow_voltage(voltage, steps=steps)
SlowVoltage ==
    /\ \E ch \in {"1", "2"} : \E voltage \in Targets : \E steps \in 1..MaxSteps :
       \E rm \in ModeReplies : \E rv \in VoltReplies :
          LET r == slow_voltage(ch, voltage, steps, rm, rv)
          IN  op' = [ id |-> 0, kind |-> "slow_voltage",
                      owner |-> "Keithley6482Chnanel", ch |-> ch,
                      name |-> "slow_voltage", arg |-> voltage,
                      outcome |-> r.outcome, io |-> r.io, result |-> rm.body,
                      steps |-> steps,
                      now |-> fget(ChAccess(ch, "voltage"), rv).result ]
    /\ UNCHANGED <<adapter, instr, dispVars>>

NextKeithley ==
    \/ SetCount
    \/ SlowVoltage

SpecKeithley == InitKeithley /\ [][NextKeithley]_vars

(***************************************************************************)
(* The index specification: an image item of any geometry, and calls of    *)
(* its find_img_index with coordinates in and around the axis ranges.      *)
(***************************************************************************)
\* Coordinates from one tick below the start to one tick above the end.
Around(start, end) == (start - 1)..(end + 1)

IdxItems ==
    { ResultsImage_init("X", "Y", "V", gx, gy, FALSE) :
        gx \in AxisGeoms({-1, 0}), gy \in AxisGeoms({0}) }
    \cup
    { Results3DImage_init("V", "X", "Y", "Z", gx, gy, gz, FALSE) :
        gx \in AxisGeoms({-1, 0}), gy \in AxisGeoms({0}), gz \in AxisGeoms({0}) }

InitIdx ==
    /\ item \in IdxItems
    /\ found = NoCall
    /\ results = [data |-> <<>>]
    /\ call = [op |-> "none"]
    /\ frame = NoFrame
    /\ InstrIdle

Call_ResultsImage_find_img_index ==
    /\ item.class = "ResultsImage"
    /\ found = NoCall
    /\ \E x \in Around(item.xstart, item.xend), y \in Around(item.ystart, item.yend) :
          found' = [ op |-> "find_img_index", args |-> <<x, y>>,
                     indices |-> ResultsImage_find_img_index(item, x, y) ]
    /\ UNCHANGED <<item, results, call, frame, instrVars>>

Call_Results3DImage_find_img_index ==
    /\ item.class = "Results3DImage"
    /\ found = NoCall
    /\ \E x \in Around(item.xstart, item.xend), y \in Around(item.ystart, item.yend),
          z \in Around(item.zstart, item.zend) :
          found' = [ op |-> "find_img_index", args |-> <<x, y, z>>,
                     indices |-> Results3DImage_find_img_index(item, x, y, z) ]
    /\ UNCHANGED <<item, results, call, frame, instrVars>>

NextIdx ==
    \/ Call_ResultsImage_find_img_index
    \/ Call_Results3DImage_find_img_index

SpecIdx == InitIdx /\ [][NextIdx]_vars

(***************************************************************************)
(* The display specification: one plot item in the frame of its class      *)
(* (ResultsCurve in a PlotFrame, Results3DCurve in a Plot3DFrame,          *)
(* ResultsImage in an ImageFrame, Results3DImage in an Image3DFrame), and  *)
(* the results object it polls.                                            *)
(***************************************************************************)
Unit == [start |-> 0, end |-> 1, step |-> 1]     \* two pixels, one tick apart
Half == [start |-> 0, end |-> 1, step |-> 2]     \* two pixels, X = 1 halfway
Flat == [start |-> 1, end |-> 1, step |-> 1]     \* a single pixel

DispItems ==
    { ResultsCurve_init("X", "V", fr) : fr \in BOOLEAN }
    \cup { Results3DCurve_init("Z", "V", Unit, fr) : fr \in BOOLEAN }
    \cup { ResultsImage_init("X", "Y", "V", Half, Flat, fr) : fr \in BOOLEAN }
    \cup { Results3DImage_init("V", "X", "Y", "Z", Unit, Flat, Unit, fr) :
             fr \in BOOLEAN }

Init ==
    /\ item \in DispItems
    /\ found = NoCall
    /\ results = [data |-> <<>>]
    /\ call = [op |-> "none"]
    /\ frame = NoFrame
    /\ InstrIdle

\* The results object appends the row of a new sample to the snapshot.
Results_append ==
    /\ Len(results.data) < MaxRows
    /\ \E r \in Rows(item.class) : results' = [data |-> Append(results.data, r)]
    /\ UNCHANGED <<item, found, call, frame, instrVars>>

\* self.update_data() of the item `self` (the item with the field a frame
\* method has just set, or the item as it is).
Updated(self) ==
    LET reads == update_data_reads(self)
    IN  \E d \in IF reads[1] = "reload" THEN Stored(self.class, results.data)
                 ELSE {results.data} :
          LET r == update_data(self, d)
          IN  /\ results' = [data |-> d]
              /\ item' = r.item
              /\ call' = [ op |-> "update_data", reads |-> reads, raised |-> r.raised,
                           emitted |-> r.emitted, ramp |-> r.ramp ]
              /\ UNCHANGED <<found, frame, instrVars>>

\* The timer of the frame fires: update_curves calls item.update_data().
Timer_update_data == Updated(item)

\* PlotFrame.change_x_axis / change_y_axis (ImageFrame and Image3DFrame
\* inherit them): item.x = axis; item.update_data().
PlotFrame_change_x_axis ==
    /\ item.class \in {"ResultsCurve", "ResultsImage", "Results3DImage"}
    /\ \E axis \in {"X", "Y"} : Updated([item EXCEPT !.x = axis])

PlotFrame_change_y_axis ==
    /\ item.class \in {"ResultsCurve", "ResultsImage", "Results3DImage"}
    /\ \E axis \in CASE item.class = "ResultsCurve" -> {"V", "Y"}
                      [] item.class = "ResultsImage" -> {"Y", "X"}
                      [] OTHER -> {"Y"} :
          Updated([item EXCEPT !.y = axis])

\* ImageFrame.change_z_axis, Plot3DFrame.change_z_axis
Frame_change_z_axis ==
    /\ item.class \in {"ResultsImage", "Results3DCurve"}
    /\ \E axis \in IF item.class = "ResultsImage" THEN {"V", "X"} ELSE {"Z", "X"} :
          Updated([item EXCEPT !.z = axis])

\* Image3DFrame.change_var_axis, Plot3DFrame.change_var_axis
Frame_change_var_axis ==
    /\ Is3D(item.class)
    /\ \E axis \in {"V", "X"} : Updated([item EXCEPT !.var = axis])

\* Image3DFrame.change_shown_zidx([zidx])
Image3DFrame_change_shown_zidx ==
    /\ item.class = "Results3DImage"
    /\ \E zidx \in 0..(item.zsize - 1) :
          Updated([item EXCEPT !.shown_zidx = zidx])

\* Plot3DFrame.change_shown_xidx_yidx([(xid, yid)])
Plot3DFrame_change_shown_xidx_yidx ==
    /\ item.class = "Results3DCurve"
    /\ \E xid \in {0, 1} :
          Updated([item EXCEPT !.shown_xid = xid, !.shown_yid = 0])

Next ==
    \/ Results_append
    \/ Timer_update_data
    \/ PlotFrame_change_x_axis
    \/ PlotFrame_change_y_axis
    \/ Frame_change_z_axis
    \/ Frame_change_var_axis
    \/ Image3DFrame_change_shown_zidx
    \/ Plot3DFrame_change_shown_xidx_yidx

Spec == Init /\ [][Next]_vars

(***************************************************************************)
(* BufferCurve.  _buffer is None until prepare (prepared = FALSE); _ptr is *)
(* not set before prepare and is not read before it either.  shown is the  *)
(* series last given to setData.                                           *)
(***************************************************************************)
\* float32 holds every integer up to 2^24; the integers just above it are
\* stored as the nearest even one (ties to the even significand).
F32Exact == 16777216

F32(v) ==
    IF Abs(v) <= F32Exact THEN v
    ELSE LET a == Abs(v)
             r == IF a % 4 = 3 THEN a + 1 ELSE IF a % 4 = 1 THEN a - 1 ELSE a
         IN  IF v < 0 THEN -r ELSE r

\* np.empty leaves the rows uninitialized: whatever the memory held.
Garbage == { <<0, 0>>, <<-1, 1>> }

BufferCurve_init ==
    [ class |-> "BufferCurve", prepared |-> FALSE, _buffer |-> <<>>, _ptr |-> 0,
      shown |-> <<>> ]

\* prepare(size): np.empty((size, 2)) raises ValueError for a negative size,
\* before anything is assigned.
BufferCurve_prepare(self, size, mem) ==
    IF size < 0
    THEN [ item |-> self, raised |-> "ValueError", emitted |-> <<>> ]
    ELSE [ item |-> [self EXCEPT !.prepared = TRUE, !._buffer = mem, !._ptr = 0],
           raised |-> "none", emitted |-> <<>> ]

\* The two checks at the head of append: the exception raised, if any.
append_guard_overflow_first(self) ==
    IF Len(self._buffer) <= self._ptr THEN "BufferCurve overflow"
    ELSE IF ~self.prepared THEN "BufferCurve buffer must be prepared"
    ELSE "none"

append_guard_late(self) ==
    IF ~self.prepared THEN "BufferCurve buffer must be prepared"
    ELSE IF Len(self._buffer) < self._ptr THEN "BufferCurve overflow"
    ELSE "none"

append_guard(self) ==
    IF ~self.prepared THEN "BufferCurve buffer must be prepared"
    ELSE IF Len(self._buffer) <= self._ptr THEN "BufferCurve overflow"
    ELSE "none"

\* append(x, y) past the checks: store the point in row _ptr, setData with
\* the rows before _ptr, advance _ptr, emit data_updated.  (A row index
\* equal to the length is an IndexError of numpy.)
BufferCurve_append(self, x, y) ==
    IF append_guard(self) # "none"
    THEN [ item |-> self, raised |-> append_guard(self), emitted |-> <<>> ]
    ELSE IF self._ptr >= Len(self._buffer)
    THEN [ item |-> self, raised |-> "IndexError", emitted |-> <<>> ]
    ELSE LET buf == [self._buffer EXCEPT ![self._ptr + 1] = <<F32(x), F32(y)>>]
         IN  [ item |-> [self EXCEPT !._buffer = buf,
                                     !.shown = SubSeq(buf, 1, self._ptr),
                                     !._ptr = self._ptr + 1],
               raised |-> "none", emitted |-> <<"data_updated">> ]

(***************************************************************************)
(* The buffer specification: one BufferCurve, prepared and appended to in  *)
(* any order.  call is the last call, with the points appended with        *)
(* success since the last prepare (as they were passed).                   *)
(***************************************************************************)
Sizes == (-1)..MaxSize
Samples == {0, F32Exact + 1} \X {0, 1}

InitBuf ==
    /\ item = BufferCurve_init
    /\ call = [op |-> "none", appended |-> <<>>]
    /\ found = NoCall
    /\ results = [data |-> <<>>]
    /\ frame = NoFrame
    /\ InstrIdle

Call_prepare ==
    \E size \in Sizes :
      \E mem \in [1..(IF size < 0 THEN 0 ELSE size) -> Garbage] :
        LET r == BufferCurve_prepare(item, size, mem)
        IN  /\ item' = r.item
            /\ call' = [ op |-> "prepare", size |-> size, raised |-> r.raised,
                         emitted |-> r.emitted,
                         appended |-> IF r.raised = "none" THEN <<>>
                                      ELSE call.appended ]
            /\ UNCHANGED <<found, results, frame, instrVars>>

Call_append ==
    \E p \in Samples :
        LET r == BufferCurve_append(item, p[1], p[2])
        IN  /\ item' = r.item
            /\ call' = [ op |-> "append", point |-> p, raised |-> r.raised,
                         emitted |-> r.emitted,
                         appended |-> IF r.raised = "none"
                                      THEN Append(call.appended, p)
                                      ELSE call.appended ]
            /\ UNCHANGED <<found, results, frame, instrVars>>

NextBuf ==
    \/ Call_prepare
    \/ Call_append

SpecBuf == InitBuf /\ [][NextBuf]_vars

(***************************************************************************)
(* The frames.  A frame holds the items of its plot in order; an entry is  *)
(* a plot item with the status of its results' procedure and the snapshot  *)
(* its results hold, or an item of another kind (a crosshair line).        *)
(***************************************************************************)
\* The class attribute ResultsClass of each frame class.
ResultsClass(class) ==
    CASE class = "PlotFrame" -> "ResultsCurve"
      [] class = "Plot3DFrame" -> "Results3DCurve"
      [] class = "ImageFrame" -> "ResultsImage"
      [] OTHER -> "Results3DImage"

\* PlotFrame, and ImageFrame and Image3DFrame which extend it, have
\* change_x_axis and change_y_axis.
IsPlotFrame(class) == class \in {"PlotFrame", "ImageFrame", "Image3DFrame"}

\* isinstance(item, self.ResultsClass)
isinstance(e, class) == e.item.class = class

\* The loop `for item in self.plot.items` of update_curves (field = "") and
\* of change_<field>_axis, from entry k on.  st holds the entries, the
\* calls of update_data made so far and the exception that ended the loop.
\* One pass of the loop body on entry k: item.update_data() has returned r
\* (or the entry is skipped).
\* connect: the pass begins with item.dataUpdated.connect(<target handler>),
\* an AttributeError for a class without that signal.  Every emission of
\* dataUpdated by the item runs the handler once per connection.
has_dataUpdated(class) == class \in {"Results3DCurve", "ResultsImage", "Results3DImage"}

Times(k, n) == [i \in 1..n |-> k]

loop_body(st, k, connect, skip, r) ==
    IF connect /\ ~has_dataUpdated(st.items[k].item.class)
    THEN [st EXCEPT !.raised = "AttributeError"]
    ELSE IF skip
    THEN [st EXCEPT !.items[k].connections = @ + (IF connect THEN 1 ELSE 0)]
    ELSE [ items |-> [st.items EXCEPT ![k].item = r.item,
                         ![k].connections = @ + (IF connect THEN 1 ELSE 0)],
           updated |-> Append(st.updated, k),
           emissions |-> st.emissions \o Times(k, Len(r.emitted)),
           moved |-> st.moved \o
                     Times(k, Len(r.emitted)
                              * (st.items[k].connections + (IF connect THEN 1 ELSE 0))),
           raised |-> r.raised ]

RECURSIVE for_items(_, _, _, _, _)
for_items(fr, field, axis, k, st) ==
    IF k > Len(st.items) \/ st.raised # "none" THEN st
    ELSE for_items(fr, field, axis, k + 1,
            loop_body(st, k,
                /\ field = "" /\ fr.check_status /\ fr.target_enable
                /\ isinstance(st.items[k], ResultsClass(fr.class)),
                \/ ~isinstance(st.items[k], ResultsClass(fr.class))
                \/ field = "" /\ fr.check_status /\ st.items[k].status # "RUNNING",
                update_data(IF field = "" THEN st.items[k].item
                            ELSE [st.items[k].item EXCEPT ![field] = axis],
                            st.items[k].data)))

\* update_curves, connected to the timer of the frame: the loop and
\* nothing else.  st is the outcome of the loop.
update_curves(fr, st) ==
    [ frame |-> [fr EXCEPT !.items = st.items],
      updated |-> st.updated, raised |-> st.raised, emitted |-> <<>>,
      emissions |-> st.emissions, moved |-> st.moved ]

\* change_x_axis, change_y_axis (PlotFrame), change_z_axis (ImageFrame):
\* the loop, then the label, self.<field>_axis = axis and the signal.
change_axis(fr, field, axis, st) ==
    IF st.raised # "none"
    THEN [ frame |-> [fr EXCEPT !.items = st.items],
           updated |-> st.updated, raised |-> st.raised, emitted |-> <<>>,
           emissions |-> st.emissions, moved |-> st.moved ]
    ELSE [ frame |-> [fr EXCEPT !.items = st.items, ![field \o "_axis"] = axis],
           updated |-> st.updated, raised |-> "none",
           emitted |-> << [signal |-> field \o "_axis_changed", arg |-> axis] >>,
           emissions |-> st.emissions, moved |-> st.moved ]

(***************************************************************************)
(* The frame specification.                                                *)
(***************************************************************************)
Statuses == {"RUNNING", "FINISHED"}

OtherItem ==
    [ item |-> [class |-> "InfiniteLine"], status |-> "", data |-> <<>>,
      connections |-> 0 ]

\* The entries a frame of the class can hold: items of its ResultsClass on
\* a snapshot of one row, and other items.
Entries_of(class) ==
    {OtherItem} \cup
    CASE class = "PlotFrame" ->
            { [item |-> ResultsCurve_init("X", "V", FALSE), status |-> s, connections |-> 0,
               data |-> << [X |-> 0, Y |-> 1, V |-> 1] >>] : s \in Statuses }
      [] class = "Plot3DFrame" ->
            { [item |-> Results3DCurve_init("Z", "V", Unit, FALSE), status |-> s, connections |-> 0,
               data |-> << [X |-> 0, Y |-> 1, Z |-> 0, V |-> 1] >>] : s \in Statuses }
      [] class = "ImageFrame" ->
            { [item |-> ResultsImage_init("X", "Y", "V", Half, Flat, FALSE),
               status |-> s, connections |-> 0, data |-> << [X |-> 0, Y |-> 1, V |-> 1] >>] :
              s \in Statuses }
      [] OTHER ->
            { [item |-> Results3DImage_init("V", "X", "Y", "Z", Unit, Flat, Unit, FALSE),
               status |-> s, connections |-> 0, data |-> << [X |-> 0, Y |-> 1, Z |-> z, V |-> 1] >>] :
              s \in Statuses, z \in {0, 1} }

ItemLists(class) ==
    UNION { [1..n -> Entries_of(class)] : n \in 0..MaxItems }

\* A frame as __init__ leaves it (the axes it was given recorded, the plot
\* still empty at that time), with the items added to its plot since.
InitFrame ==
    /\ \E class \in {"PlotFrame", "Plot3DFrame", "ImageFrame", "Image3DFrame"} :
       \E check_status \in BOOLEAN : \E items \in ItemLists(class) :
       \E target_enable \in BOOLEAN :
          frame = [ class |-> class, check_status |-> check_status,
                    target_enable |-> target_enable,
                    x_axis |-> "X", y_axis |-> IF class = "PlotFrame" THEN "V" ELSE "Y",
                    z_axis |-> "V", items |-> items ]
    /\ call = [op |-> "none"]
    /\ item = NoItem
    /\ found = NoCall
    /\ results = [data |-> <<>>]
    /\ InstrIdle

\* A slot of the frame: update_curves (field = "") or the change of the
\* axis `field`, on the frame fr.
NoneUpdated(fr) ==
    [ items |-> fr.items, updated |-> <<>>, emissions |-> <<>>, moved |-> <<>>,
      raised |-> "none" ]

slot(fr, field, axis, st) ==
    IF field = "" THEN update_curves(fr, st) ELSE change_axis(fr, field, axis, st)

Frame_done(name, axis, r) ==
    /\ frame' = r.frame
    /\ call' = [ op |-> name, axis |-> axis, updated |-> r.updated,
                 raised |-> r.raised, emitted |-> r.emitted,
                 emissions |-> r.emissions, moved |-> r.moved ]
    /\ UNCHANGED <<item, found, results, instrVars>>

Frame_call(name, field, axis) ==
    Frame_done(name, axis,
               slot(frame, field, axis,
                    for_items(frame, field, axis, 1, NoneUpdated(frame))))

\* The timer fires (while no item has MaxTicks connections yet).
Frame_update_curves ==
    /\ \A k \in DOMAIN frame.items : frame.items[k].connections < MaxTicks
    /\ Frame_call("update_curves", "", "")

Frame_change_x_axis ==
    /\ IsPlotFrame(frame.class)
    /\ \E axis \in {"X", "Y"} : Frame_call("change_x_axis", "x", axis)

Frame_change_y_axis ==
    /\ IsPlotFrame(frame.class)
    /\ \E axis \in {"Y", "V"} : Frame_call("change_y_axis", "y", axis)

ImageFrame_change_z_axis ==
    /\ frame.class = "ImageFrame"
    /\ \E axis \in {"V", "X"} : Frame_call("change_z_axis", "z", axis)

\* The procedure of an item starts or ends.
Procedure_status ==
    /\ \E k \in DOMAIN frame.items : \E s \in Statuses :
          /\ frame.items[k].item.class # "InfiniteLine"
          /\ frame' = [frame EXCEPT !.items[k].status = s]
    /\ UNCHANGED <<item, found, results, call, instrVars>>

NextFrame ==
    \/ Frame_update_curves
    \/ Frame_change_x_axis
    \/ Frame_change_y_axis
    \/ ImageFrame_change_z_axis
    \/ Procedure_status

SpecFrame == InitFrame /\ [][NextFrame]_vars

(***************************************************************************)
(* Claims about find_img_index (specification SpecIdx).                    *)
(***************************************************************************)
\* The axes of the item: the coordinate given for the axis, the index
\* returned for it, and the axis geometry.
FoundAxes ==
    IF found.op # "find_img_index" THEN {}
    ELSE { [c |-> found.args[1], i |-> found.indices[1], start |-> item.xstart,
            end |-> item.xend, step |-> item.xstep, size |-> item.xsize],
           [c |-> found.args[2], i |-> found.indices[2], start |-> item.ystart,
            end |-> item.yend, step |-> item.ystep, size |-> item.ysize] }
         \cup
         IF item.class = "Results3DImage"
         THEN { [c |-> found.args[3], i |-> found.indices[3], start |-> item.zstart,
                 end |-> item.zend, step |-> item.zstep, size |-> item.zsize] }
         ELSE {}

\* C1: find_img_index of ResultsImage and of Results3DImage maps, for each
\* axis independently, a coordinate below the axis start or above the axis
\* end to the last pixel of that axis, index size - 1, whatever the other
\* coordinates are.
C1_ClampToLastPixel ==
    \A a \in FoundAxes : (a.c < a.start \/ a.c > a.end) => a.i = a.size - 1

\* C1 witness: a call with x below the start of an axis of several pixels
\* and y within its range returned the last pixel for x.
C1_Witness ==
    /\ found.op = "find_img_index"
    /\ found.args[1] < item.xstart
    /\ item.xsize > 1
    /\ item.ystart <= found.args[2] /\ found.args[2] < item.yend
    /\ found.indices[1] = item.xsize - 1
    /\ found.indices[2] # item.ysize - 1

\* C2: for a coordinate within [start, end] (step > 0) find_img_index gives
\* the nearest grid index with ties rounded up: floor((c - start)/step + 1/2).
C2_NearestTiesUp ==
    \A a \in FoundAxes :
        (a.start <= a.c /\ a.c <= a.end) =>
            a.i = (2 * (a.c - a.start) + a.step) \div (2 * a.step)

\* C2 witness: a coordinate exactly halfway between two grid points was
\* mapped to the higher of the two indices.
C2_Witness ==
    \E a \in FoundAxes :
        /\ a.start <= a.c /\ a.c <= a.end
        /\ 2 * ((a.c - a.start) % a.step) = a.step
        /\ a.i = ((a.c - a.start) \div a.step) + 1

(***************************************************************************)
(* Claims about the instrument properties (specification SpecInstr).       *)
(***************************************************************************)
InInts(v, lo, hi) ==
    v.t = "num" /\ v.n % 1000 = 0 /\ lo * 1000 <= v.n /\ v.n <= hi * 1000
InReals(v, lo, hi) == v.t = "num" /\ lo <= v.n /\ v.n <= hi
InWords(v, ws) == v.t = "str" /\ v.s \in ws

\* The properties that have a validator, and the values each of them is
\* documented to allow (numbers in thousandths).
ValidatedNames ==
    { "measurement_function", "threshold_ac", "threshold_dc", "measurement_time",
      "inputACoupling", "inputAImpedance", "inputAAttenuation", "edge_trigger",
      "low_pass_filter_enable", "sourcing_mode", "settling_time",
      "current_autorange", "ground_connect", "output", "auto_delay", "voltage",
      "start", "stop", "step", "points", "center", "span", "spacing", "ranging",
      "direction", "median_filter_enable", "speed_accuracy",
      "average_filter_enable", "average_filter_count", "average_filter_type",
      "advanced_filter_enable", "trigger_count", "arm_count" }

Allowed(name, v) ==
    CASE name = "threshold_ac" -> InInts(v, -60, 60)
      [] name = "threshold_dc" -> InInts(v, -300, 2100)
      [] name = "measurement_time" ->
            v.t = "num" /\ v.n \in {300, 1000, 10000, 100000}
      [] name = "measurement_function" -> v.t = "enum" /\ v.n \in {k * 1000 : k \in 0..9}
      [] name \in {"voltage", "start", "stop", "step", "center", "span"} ->
            InReals(v, -30000, 30000)
      [] name = "settling_time" -> InReals(v, 0, 9999999)
      [] name = "speed_accuracy" -> InReals(v, 10, 10000)
      [] name \in {"points", "trigger_count", "arm_count"} -> InInts(v, 1, 2999)
      [] name = "average_filter_count" -> InInts(v, 1, 100)
      [] name \in {"current_autorange", "ground_connect", "output", "auto_delay",
                   "median_filter_enable", "average_filter_enable",
                   "advanced_filter_enable", "low_pass_filter_enable"} ->
            v.t = "bool"
      [] name = "inputACoupling" -> InWords(v, {"AC", "DC"})
      [] name = "inputAImpedance" -> InWords(v, {"1MOhm", "50Ohm"})
      [] name = "inputAAttenuation" -> InWords(v, {"5:1", "1:1"})
      [] name = "edge_trigger" -> InWords(v, {"rising", "falling"})
      [] name = "sourcing_mode" -> InWords(v, {"FIX", "LIST", "SWE"})
      [] name = "spacing" -> InWords(v, {"LIN", "LOG"})
      [] name = "ranging" -> InWords(v, {"BEST", "AUTO", "FIX"})
      [] name = "direction" -> InWords(v, {"UP", "DOWN"})
      [] name = "average_filter_type" -> InWords(v, {"MOV", "REP"})
      [] OTHER -> v.t = "num"

\* This step is a property access (a set or a get made the op counter move).
Accessed == op'.id # op.id

\* C3: setting a validated property to a value outside its allowed set
\* raises a validation error and sends nothing to the adapter: the access
\* causes no traffic and the adapter's counts of writes and reads stay.
C3_InvalidSetSendsNothing ==
    [][ (Accessed /\ op'.kind = "set" /\ op'.name \in ValidatedNames
            /\ ~Allowed(op'.name, op'.arg))
        => (op'.outcome = "ValidationError" /\ op'.io = <<>> /\ adapter' = adapter)
      ]_vars

\* C3 witness: after an access that wrote a line, threshold_ac = 61 ended in
\* a validation error with the adapter's single write still the only one.
C3_Witness ==
    /\ op.id = 2 /\ op.kind = "set" /\ op.name = "threshold_ac"
    /\ op.arg = Whole(61)
    /\ op.outcome = "ValidationError"
    /\ adapter = [writes |-> 1, reads |-> 0]

\* The line a set is expected to write, for the documented examples.
TextArg(f, n, s) == [f |-> f, n |-> n, s |-> s]

\* The words the mapped settings are documented to send.
Sends(word) ==
    CASE word = "1MOhm" -> "Z1" [] word = "50Ohm" -> "Z5"
      [] word = "5:1" -> "A5"   [] word = "1:1" -> "A1"
      [] word = "rising" -> "ER" [] OTHER -> "EF"

\* line is what setting o.name to o.arg is expected to write.
ExpectedLine(o, line) ==
    CASE o.name \in {"inputAImpedance", "inputAAttenuation", "edge_trigger"} ->
            line = Line("%s", "", TextArg("s", 0, Sends(o.arg.s)))
      [] o.name = "measurement_time" ->
            line = Line("M%i", "", TextArg("i",
                        CASE o.arg.n = 300 -> 1 [] o.arg.n = 1000 -> 2
                          [] o.arg.n = 10000 -> 3 [] OTHER -> 4, ""))
      [] o.name = "low_pass_filter_enable" ->
            line = Line("%s", "", TextArg("s", 0, IF o.arg.n = 1000 THEN "FI" ELSE "FO"))
      [] o.name = "measurement_function" ->
            line = Line("F%i", "", TextArg("i", o.arg.n \div 1000, ""))
      [] o.name = "output" ->
            line = Line("OUTP{ch} %i", o.ch,
                        TextArg("i", IF o.arg.n = 1000 THEN 1 ELSE 0, ""))
      [] OTHER ->
            \* the property's own template, with the value itself: an integer
            \* (%i), the word (%s), or the number to six significant digits (%g)
            /\ line.template = PropOf(o).set
            /\ line.ch = o.ch
            /\ \/ line.arg.f = "i" /\ line.arg.n * 1000 = o.arg.n
               \/ line.arg.f = "s" /\ line.arg.s = o.arg.s /\ o.arg.t = "str"
               \/ line.arg.f = "g" /\ 200000 * Abs(line.arg.n - o.arg.n) <= Abs(o.arg.n)

\* The properties that can only be set (Instrument.setting).
SettingNames ==
    { "measurement_function", "measurement_time", "inputACoupling",
      "inputAImpedance", "inputAAttenuation", "edge_trigger",
      "low_pass_filter_enable" }

\* C4: setting a property to a value inside its allowed set is accepted and
\* causes exactly one adapter write, the set command formatted with the
\* mapped value ('Z1'/'Z5', 'M1'..'M4', 'FI'/'FO', 'F<m.value>',
\* 'OUTP<ch> 1'/'OUTP<ch> 0'); getting a property causes exactly one query,
\* one write followed by one read.
C4_OneRoundTrip ==
    [][ Accessed =>
        /\ (op'.kind = "set" /\ Allowed(op'.name, op'.arg)
              /\ op'.name \notin {"power", "dark_offset", "current",
                                  "every_result_query", "continuous_result_query",
                                  "next_result_query", "current_result_query"})
           => /\ op'.outcome = "ok"
              /\ Len(op'.io) = 1
              /\ op'.io[1].dir = "write"
              /\ ExpectedLine(op', op'.io[1].text)
              /\ adapter' = [writes |-> adapter.writes + 1, reads |-> adapter.reads]
        /\ (op'.kind = "get" /\ op'.name \notin SettingNames)
           => /\ Len(op'.io) = 2
              /\ op'.io[1].dir = "write" /\ op'.io[1].text.ch = op'.ch
              /\ op'.io[2].dir = "read"
              /\ adapter' = [writes |-> adapter.writes + 1,
                             reads |-> adapter.reads + 1]
      ]_vars

\* C4 witness: measurement_time = 0.3 was accepted and wrote 'M1', the
\* second write of the run.
C4_Witness ==
    /\ op.id = 2 /\ op.kind = "set" /\ op.name = "measurement_time"
    /\ op.arg = Num(300)
    /\ op.outcome = "ok"
    /\ op.io = << Written(Line("M%i", "", TextArg("i", 1, ""))) >>
    /\ adapter = [writes |-> 2, reads |-> 0]

\* C5: properties are not cached: every get of a control or measurement
\* property issues a fresh query (one more write, one more read, whatever
\* was set or got before) and returns the value of the reply to that query:
\* a reply of 1.5 gives 1.5 for every property cast to float.
C5_NotCached ==
    [][ (Accessed /\ op'.kind = "get" /\ op'.name \notin SettingNames)
        => /\ Len(op'.io) = 2
           /\ op'.io[1].dir = "write" /\ op'.io[2].dir = "read"
           /\ adapter'.writes = adapter.writes + 1
           /\ adapter'.reads = adapter.reads + 1
           /\ (op'.name \in {"power", "wavelength", "dark_offset", "voltage"}
                 /\ op'.io[2].text = [ctl |-> FALSE, body |-> Num(1500), unit |-> ""])
              => (op'.outcome = "ok" /\ op'.result = Num(1500))
      ]_vars

\* C5 witness: the second of two consecutive gets caused the second query
\* of the run and returned the value of its own reply.
C5_Witness ==
    /\ op.id = 2 /\ op.kind = "get" /\ op.name = "power"
    /\ adapter = [writes |-> 2, reads |-> 2]
    /\ op.io[2].text = [ctl |-> FALSE, body |-> Num(1500), unit |-> ""]
    /\ op.result = Num(1500)

(***************************************************************************)
(* Claims about the plot items and their update_data.                      *)
(***************************************************************************)
IsImage(self) == self.class \in {"ResultsImage", "Results3DImage"}

\* A step in which update_data ran and left a trace: the item or the
\* record of the call differs.  (Results_append touches neither.)
Refreshed == <<item, call>>' # <<item, call>>

\* ceil((end - start) / step) + 1, stated without the code's arithmetic:
\* one more than the least n with n * step >= end - start.
Entries(start, end, step) ==
    (CHOOSE n \in 0..(end - start) :
        /\ n * step >= end - start
        /\ n = 0 \/ (n - 1) * step < end - start) + 1

Shape(self) ==
    IF self.class = "ResultsImage"
    THEN (0..(Entries(self.ystart, self.yend, self.ystep) - 1))
         \X (0..(Entries(self.xstart, self.xend, self.xstep) - 1))
    ELSE (0..(Entries(self.zstart, self.zend, self.zstep) - 1))
         \X (0..(Entries(self.ystart, self.yend, self.ystep) - 1))
         \X (0..(Entries(self.xstart, self.xend, self.xstep) - 1))

Geometry(self) ==
    IF self.class = "ResultsImage"
    THEN << self.xstart, self.xend, self.xstep, self.ystart, self.yend, self.ystep >>
    ELSE << self.xstart, self.xend, self.xstep, self.ystart, self.yend, self.ystep,
            self.zstart, self.zend, self.zstep >>

\* C6: the pixel array of ResultsImage / Results3DImage always has, along
\* each axis, ceil((end - start) / step) + 1 entries for the start, end and
\* step the item was constructed with; no update_data, axis change or slice
\* selection changes the configured axes or the dimensions of the array.
C6_FixedPixelArray ==
    /\ [](IsImage(item) => DOMAIN item.img_data = Shape(item))
    /\ [][IsImage(item) =>
            /\ Geometry(item') = Geometry(item)
            /\ DOMAIN item'.img_data = DOMAIN item.img_data]_vars

\* A 3-D image after an x-axis change and the selection of the slice 1,
\* with a pixel painted.
C6_Witness ==
    /\ item.class = "Results3DImage"
    /\ item.x = "Y"
    /\ item.shown_zidx = 1
    /\ call.op = "update_data"
    /\ \E p \in DOMAIN item.img_data : item.img_data[p] # Blank

\* C7: every value ResultsImage.update_data passes to the colour ramp is
\* defined and lies in [0, 1].
C7_RampInUnitInterval ==
    (item.class = "ResultsImage" /\ call.op = "update_data") =>
        \A k \in DOMAIN call.ramp :
            /\ call.ramp[k].den > 0
            /\ 0 <= call.ramp[k].num
            /\ call.ramp[k].num <= call.ramp[k].den

\* An image of the same geometry and the same column selection that has
\* processed nothing yet.
Fresh(self) == [self EXCEPT !.img_data = [p \in DOMAIN self.img_data |-> Blank]]

C9_EmitsOncePerCall ==
    [][(Refreshed /\ IsImage(item')) =>
          /\ call'.raised = "none"
          /\ Len(call'.emitted) = 1
          /\ LET d == results'.data
             IN  call'.emitted[1] =
                    IF d = <<>> THEN [x |-> 0, y |-> 0]
                    ELSE [x |-> d[Len(d)][item'.x], y |-> d[Len(d)][item'.y]]]_vars

\* C10: an update_data reloads the results exactly once, before it reads
\* the snapshot, if force_reload is set; otherwise it only reads the
\* snapshot and leaves it as it was.
C10_ReloadIffForced ==
    [][Refreshed =>
          /\ item'.force_reload = item.force_reload
          /\ IF item.force_reload
             THEN call'.reads = <<"reload", "data">>
             ELSE call'.reads = <<"data">> /\ results' = results]_vars

\* A curve with force_reload set that has reloaded, read and drawn rows.
C10_Witness ==
    /\ item.class = "ResultsCurve"
    /\ item.force_reload
    /\ call.op = "update_data"
    /\ call.reads = <<"reload", "data">>
    /\ Len(item.shown.xs) > 0

\* C11: after ResultsCurve.update_data the displayed x series is the whole
\* x column and the displayed y series the whole y column of the snapshot
\* read, row by row, and nothing else.
C11_FullSeries ==
    [][(Refreshed /\ item'.class = "ResultsCurve") =>
          LET d == results'.data
              s == item'.shown
          IN  /\ Len(s.xs) = Len(d)
              /\ Len(s.ys) = Len(d)
              /\ \A k \in 1..Len(d) :
                    s.xs[k] = d[k][item'.x] /\ s.ys[k] = d[k][item'.y]]_vars

\* A curve that shows the two rows of a snapshot, with different x.
C11_Witness ==
    /\ item.class = "ResultsCurve"
    /\ call.op = "update_data"
    /\ Len(item.shown.xs) = 2
    /\ Len(results.data) = 2
    /\ item.shown.xs[1] # item.shown.xs[2]

(***************************************************************************)
(* Claims about BufferCurve (specification SpecBuf).                       *)
(***************************************************************************)
\* A step that is a call of append / of prepare.
Appending == call'.op = "append" /\ <<item, call>>' # <<item, call>>
Preparing == call'.op = "prepare" /\ <<item, call>>' # <<item, call>>

\* C12: append on a curve that was never prepared raises 'BufferCurve
\* buffer must be prepared', stores and displays nothing and does not emit
\* data_updated.
C12_AppendNeedsPrepare ==
    [][(Appending /\ ~item.prepared) =>
          /\ call'.raised = "BufferCurve buffer must be prepared"
          /\ item' = item
          /\ item'.shown = <<>> /\ item'._buffer = <<>>
          /\ call'.emitted = <<>>]_vars

\* The failed append on a curve not prepared.
C12_Witness ==
    /\ call.op = "append"
    /\ ~item.prepared
    /\ call.raised = "BufferCurve buffer must be prepared"

\* C13: once prepared, 0 <= _ptr <= size and _ptr counts the appends that
\* succeeded since prepare; an append succeeds exactly while _ptr < size and
\* otherwise raises 'BufferCurve overflow' leaving the curve as it was and
\* emitting nothing; a prepare that succeeds makes a buffer of the size
\* asked for and sets _ptr to 0.
C13_AtMostSize ==
    /\ [](item.class = "BufferCurve" /\ item.prepared =>
            /\ 0 <= item._ptr /\ item._ptr <= Len(item._buffer)
            /\ item._ptr = Len(call.appended))
    /\ [][/\ (Appending /\ item.prepared) =>
                IF item._ptr < Len(item._buffer)
                THEN call'.raised = "none" /\ item'._ptr = item._ptr + 1
                ELSE /\ call'.raised = "BufferCurve overflow"
                     /\ item' = item
                     /\ call'.emitted = <<>>
          /\ (Preparing /\ call'.raised = "none") =>
                item'._ptr = 0 /\ Len(item'._buffer) = call'.size]_vars

\* An append refused on a full buffer that holds at least one point.
C13_Witness ==
    /\ call.op = "append"
    /\ call.raised = "BufferCurve overflow"
    /\ item._ptr = Len(item._buffer)
    /\ item._ptr >= 1

\* C14: after an append that succeeded, the series shown is the points
\* appended since the last prepare (as float32 holds them), in order, the
\* point just appended included.
C14_ShowsAllAppended ==
    (call.op = "append" /\ call.raised = "none") =>
        item.shown = [k \in 1..Len(call.appended) |->
                        <<F32(call.appended[k][1]), F32(call.appended[k][2])>>]

(***************************************************************************)
(* Claims about the Keithley 6482 (specification SpecKeithley).            *)
(***************************************************************************)
\* C15: once both counts have been sent, the product of the trigger count
\* and the arm count last sent to the instrument is at most 3000.
C15_CountProductBounded ==
    (adapter.sent.trigger_count > 0 /\ adapter.sent.arm_count > 0) =>
        adapter.sent.trigger_count * adapter.sent.arm_count <= 3000

\* A voltage set command among the traffic of a call.
VoltageSets(io) ==
    { k \in DOMAIN io : io[k].dir = "write" /\ io[k].text.template = "SOUR{ch}:VOLT %g" }

\* C16: when the instrument reports a sourcing mode other than FIX,
\* slow_voltage raises ValueError and has sent no voltage set command.
C16_NeedsFixedMode ==
    (op.kind = "slow_voltage" /\ op.result # Str("FIX")) =>
        /\ op.outcome = "ValueError"
        /\ VoltageSets(op.io) = {}

\* slow_voltage refused in sweep mode, after the one query of the mode.
C16_Witness ==
    /\ op.kind = "slow_voltage"
    /\ op.result = Str("SWE")
    /\ op.outcome = "ValueError"
    /\ Len(op.io) = 2

\* C17: in FIX mode and with the source voltage read back, slow_voltage to
\* a target outside [-30, 30] raises the validation error and has sent no
\* voltage set command.
C17_TargetValidatedFirst ==
    (/\ op.kind = "slow_voltage"
     /\ op.result = Str("FIX")
     /\ op.outcome # "CastError"
     /\ (op.arg.n < -30000 \/ op.arg.n > 30000)) =>
        /\ op.outcome = "ValidationError"
        /\ VoltageSets(op.io) = {}

(***************************************************************************)
(* Claims about the frames (specification SpecFrame).                      *)
(***************************************************************************)
\* A step in which a slot of the frame ran (a change of a procedure's
\* status changes a status and leaves the record of the last call).
SlotRan ==
    /\ <<frame, call>>' # <<frame, call>>
    /\ Len(frame'.items) = Len(frame.items)
    /\ \A k \in DOMAIN frame.items : frame'.items[k].status = frame.items[k].status

\* The entries of the frame that are instances of its ResultsClass.
Instances(fr) ==
    { k \in DOMAIN fr.items : fr.items[k].item.class = ResultsClass(fr.class) }

\* q lists exactly the members of S, each once, in increasing order.
ListsInOrder(q, S) ==
    /\ { q[i] : i \in DOMAIN q } = S
    /\ \A i, j \in DOMAIN q : i < j => q[i] < q[j]

\* C18: a timer tick calls update_data on the items of the frame's
\* ResultsClass and on no other: with check_status, on exactly those whose
\* procedure is RUNNING; without, on every one of them.
C18_TimerUpdatesRunning ==
    [][(SlotRan /\ call'.op = "update_curves") =>
          /\ ListsInOrder(call'.updated,
                { k \in Instances(frame) :
                    ~frame.check_status \/ frame.items[k].status = "RUNNING" })
          /\ \A k \in DOMAIN frame.items :
                (frame.check_status /\ frame.items[k].status # "RUNNING")
                    => frame'.items[k].item = frame.items[k].item]_vars

\* The item field a slot sets.
FieldOf(name) ==
    CASE name = "change_x_axis" -> "x"
      [] name = "change_y_axis" -> "y"
      [] OTHER -> "z"

\* C19: change_x_axis(axis) sets x = axis on every item of the ResultsClass
\* and calls update_data on each, records x_axis = axis and emits
\* x_axis_changed(axis) once; the other axes of the items and of the frame
\* stay (and so for change_y_axis and ImageFrame.change_z_axis).
C19_AxisChangeReachesAll ==
    [][(SlotRan /\ call'.op \in {"change_x_axis", "change_y_axis", "change_z_axis"}) =>
          LET f == FieldOf(call'.op)
              others == {"x", "y", "z"} \ {f}
          IN  /\ ListsInOrder(call'.updated, Instances(frame))
              /\ \A k \in Instances(frame) :
                    /\ frame'.items[k].item[f] = call'.axis
                    /\ \A g \in others \cap DOMAIN frame.items[k].item :
                          frame'.items[k].item[g] = frame.items[k].item[g]
              /\ frame'[f \o "_axis"] = call'.axis
              /\ \A g \in others : frame'[g \o "_axis"] = frame[g \o "_axis"]
              /\ call'.emitted = << [signal |-> f \o "_axis_changed",
                                     arg |-> call'.axis] >>]_vars


(***************************************************************************)
(* Crosshairs (curves.py): the mouse position in scene coordinates, the    *)
(* two lines, and the view box of the plot that maps the scene to the      *)
(* graph.  A point is <<x, y>>; position None is the empty tuple.          *)
(***************************************************************************)
NoPosition == <<>>
NoEvent == [kind |-> "None"]

\* plot.vb.mapSceneToView: the view box shifts scene points by its origin.
mapSceneToView(vb, p) == <<p[1] - vb[1], p[2] - vb[2]>>

Crosshairs_init(vb) ==
    [ class |-> "Crosshairs", position |-> NoPosition, vb |-> vb,
      vertical |-> 0, horizontal |-> 0 ]

Crosshairs_update(self) ==
    IF self.position # NoPosition
    THEN LET mouse_point == mapSceneToView(self.vb, self.position)
         IN  [ item |-> [self EXCEPT !.vertical = mouse_point[1],
                                     !.horizontal = mouse_point[2]],
               raised |-> "none",
               emitted |-> << [signal |-> "coordinates", arg |-> mouse_point] >> ]
    ELSE [ item |-> self, raised |-> "none", emitted |-> <<>> ]

\* event is the argument tuple of sigMouseMoved: event[0] is the position.
Crosshairs_mouseMoved(self, event) ==
    IF event # NoEvent
    THEN Crosshairs_update([self EXCEPT !.position = event.pos])
    ELSE [ item |-> self, raised |-> "Mouse location not known",
           emitted |-> <<>> ]

\* The two conditions under which a click event is passed on.
click_guard_any_button(self, event) ==
    self.position # NoPosition

click_guard(self, event) ==
    /\ event.button = "LeftButton"
    /\ self.position # NoPosition

Crosshairs_mouseClicked(self, event) ==
    IF event # NoEvent
    THEN [ item |-> self, raised |-> "none",
           emitted |-> IF click_guard(self, event)
                       THEN << [signal |-> "click",
                                arg |-> mapSceneToView(self.vb, event.scenePos)] >>
                       ELSE <<>> ]
    ELSE [ item |-> self, raised |-> "Mouse location not known",
           emitted |-> <<>> ]

(***************************************************************************)
(* The crosshairs specification: one Crosshairs on a plot; the mouse moves *)
(* and clicks, the timer of the frame calls update, and the view box       *)
(* changes its range as data arrives.  call is the last call, with moved   *)
(* recording that some mouseMoved has set the position.                    *)
(***************************************************************************)
Coords == 0..MaxCoord
Points == Coords \X Coords
Origins == {<<0, 0>>, <<1, 0>>}
Buttons == {"LeftButton", "RightButton", "MiddleButton"}
MoveEvents == {NoEvent} \cup { [kind |-> "moved", pos |-> p] : p \in Points }
ClickEvents ==
    {NoEvent} \cup { [kind |-> "clicked", button |-> b, scenePos |-> p] :
                        b \in Buttons, p \in Points }

InitCross ==
    /\ item \in { Crosshairs_init(vb) : vb \in Origins }
    /\ call = [op |-> "none", moved |-> FALSE]
    /\ found = NoCall
    /\ results = [data |-> <<>>]
    /\ frame = NoFrame
    /\ InstrIdle

Called(name, event, r, moved) ==
    /\ item' = r.item
    /\ call' = [ op |-> name, event |-> event, raised |-> r.raised,
                 emitted |-> r.emitted, moved |-> moved ]
    /\ UNCHANGED <<found, results, frame, instrVars>>

Call_mouseMoved ==
    \E event \in MoveEvents :
        Called("mouseMoved", event, Crosshairs_mouseMoved(item, event),
               call.moved \/ event # NoEvent)

Call_mouseClicked ==
    \E event \in ClickEvents :
        Called("mouseClicked", event, Crosshairs_mouseClicked(item, event),
               call.moved)

Timer_update ==
    Called("update", NoEvent, Crosshairs_update(item), call.moved)

ViewBox_range_changed ==
    \E vb \in Origins \ {item.vb} :
        Called("range_changed", NoEvent,
               [ item |-> [item EXCEPT !.vb = vb], raised |-> "none",
                 emitted |-> <<>> ],
               call.moved)

NextCross ==
    \/ Call_mouseMoved
    \/ Call_mouseClicked
    \/ Timer_update
    \/ ViewBox_range_changed

SpecCross == InitCross /\ [][NextCross]_vars

(***************************************************************************)
(* Claims about Crosshairs (specification SpecCross).                      *)
(***************************************************************************)
\* The signals of one kind emitted by a call.
Signals(c, name) == { i \in 1..Len(c.emitted) : c.emitted[i].signal = name }

\* C20: mouseMoved(None) and mouseClicked(None) raise 'Mouse location not
\* known'; a click signal is emitted only by mouseClicked with a left-button
\* event and only when an earlier mouseMoved has set the position (never
\* before the first move, never for another button); update emits
\* coordinates only when a position is known.
C20_SignalsFollowMouse ==
    [][/\ (call'.op \in {"mouseMoved", "mouseClicked"} /\ call'.event = NoEvent)
            => /\ call'.raised = "Mouse location not known"
               /\ call'.emitted = <<>>
               /\ item' = item
       /\ (call'.op # "none" /\ Signals(call', "click") # {})
            => /\ call'.op = "mouseClicked"
               /\ call'.event.button = "LeftButton"
               /\ call.moved
               /\ item.position # NoPosition
       /\ (call'.op = "update" /\ Signals(call', "coordinates") # {})
            => item.position # NoPosition
       /\ (call'.op = "update" /\ item.position = NoPosition)
            => call'.emitted = <<>> /\ item' = item]_vars

\* A left click passed on after the mouse has moved.
C20_Witness ==
    /\ call.op = "mouseClicked"
    /\ call.event # NoEvent
    /\ call.moved
    /\ Signals(call, "click") # {}


(***************************************************************************)
(* Image3DWidget (image_widget.py) and the two frames it creates.  The     *)
(* arguments of a constructor are Python values (Str, Num in thousandths,  *)
(* Bool, None), passed by position and bound to the parameters in order;   *)
(* a parameter that receives no argument takes its default.                *)
(***************************************************************************)
Bind(params, defaults, args) ==
    [ p \in { params[i] : i \in DOMAIN params } |->
        LET i == CHOOSE j \in DOMAIN params : params[j] = p
        IN  IF i <= Len(args) THEN args[i] ELSE defaults[p] ]

\* QtCore.Signal(str).emit(v): a str passes; for another value PyQt raises
\* TypeError and PySide converts, so the outcome is one of the two.
emit_str_outcomes(v) == IF v.t = "str" THEN {"none"} ELSE {"none", "TypeError"}

\* self.timer.start(int(self.refresh_time * 1e3)): the interval in ms.
timer_interval(refresh_time) == PyInt(refresh_time.n * 1000, 1000)

Plot3DFrame_params ==
    << "x_axis", "z_axis", "var_axis", "refresh_time", "check_status",
       "target_enable", "max_area_enable", "max_area", "parent" >>

Plot3DFrame_defaults ==
    [ x_axis |-> None, z_axis |-> None, var_axis |-> None, refresh_time |-> Num(200),
      check_status |-> Bool(TRUE), target_enable |-> Bool(FALSE),
      max_area_enable |-> Bool(FALSE), max_area |-> None, parent |-> None ]

\* Plot3DFrame.__init__(*args) on an empty plot: the attributes set, the
\* timer started by _setup_ui, then change_z_axis(z_axis) and
\* change_var_axis(var_axis), whose emit ends as `outcome`.
Plot3DFrame_init(args, outcome) ==
    LET p == Bind(Plot3DFrame_params, Plot3DFrame_defaults, args)
    IN  [ class |-> "Plot3DFrame", x_axis |-> p.x_axis,
          refresh_time |-> p.refresh_time, check_status |-> p.check_status,
          target_enable |-> p.target_enable,
          interval |-> timer_interval(p.refresh_time),
          bottom |-> p.z_axis, z_axis |-> p.z_axis,
          left |-> p.var_axis, var_axis |-> p.var_axis,
          raised |-> outcome ]

Image3DFrame_params ==
    << "x_axis", "y_axis", "z_axis", "var_axis", "refresh_time", "check_status",
       "roi_enable", "target_enable", "max_area_enable", "max_area", "parent" >>

Image3DFrame_defaults ==
    [ x_axis |-> None, y_axis |-> None, z_axis |-> None, var_axis |-> None,
      refresh_time |-> Num(200), check_status |-> Bool(TRUE),
      roi_enable |-> Bool(FALSE), target_enable |-> Bool(FALSE),
      max_area_enable |-> Bool(FALSE), max_area |-> None, parent |-> None ]

\* Image3DFrame.__init__(*args): PlotFrame.__init__ with x_axis, y_axis,
\* refresh_time, check_status, target_enable, then z_axis and
\* change_var_axis(var_axis).
Image3DFrame_init(args) ==
    LET p == Bind(Image3DFrame_params, Image3DFrame_defaults, args)
    IN  [ class |-> "Image3DFrame", x_axis |-> p.x_axis, y_axis |-> p.y_axis,
          z_axis |-> p.z_axis, var_axis |-> p.var_axis,
          refresh_time |-> p.refresh_time, check_status |-> p.check_status,
          target_enable |-> p.target_enable,
          interval |-> timer_interval(p.refresh_time) ]

\* Image3DFrame.change_var_axis(axis) on a frame without items.
Image3DFrame_change_var_axis(fr, axis) == [fr EXCEPT !.var_axis = axis]

\* Image3DWidget.__init__: the attributes, _setup_ui (the two frames, then
\* columns_var.setCurrentIndex(2), which reaches update_var_column(2)), and
\* the var_axis given, if any.  outcome is how the emit of var_axis_changed
\* in Plot3DFrame.__init__ ends; an exception there ends the constructor.
Image3DWidget_init(columns, x_axis, y_axis, z_axis, var_axis, refresh_time, check_status, target_enable, outcome) ==
    LET image3D == Image3DFrame_init(
                      << x_axis, y_axis, z_axis, Str(columns[1]), refresh_time,
                         check_status, Bool(FALSE), target_enable, Bool(FALSE), None >>)
        plot3D == Plot3DFrame_init(
                      << z_axis, Str(columns[1]), refresh_time, check_status >>,
                      outcome)
        shown == IF var_axis # None THEN var_axis ELSE Str(columns[3])
    IN  [ class |-> "Image3DWidget", columns |-> columns,
          refresh_time |-> refresh_time, check_status |-> check_status,
          x_axis |-> x_axis, y_axis |-> y_axis, z_axis |-> z_axis,
          target_enable |-> target_enable,
          image3D_frame |-> IF outcome = "none"
                            THEN Image3DFrame_change_var_axis(image3D, shown)
                            ELSE image3D,
          plot3D_frame |-> plot3D,
          raised |-> outcome ]

\* Image3DWidget.update_var_column(index)
Image3DWidget_update_var_column(self, index) ==
    [self EXCEPT !.image3D_frame =
        Image3DFrame_change_var_axis(@, Str(self.columns[index + 1]))]

\* Image3DWidget.new_curve: the image is built from the axes of
\* image3D_frame, the curve from plot3D_frame.x_axis and
\* plot3D_frame.y_axis; a Plot3DFrame has no attribute y_axis.
Plot3DFrame_attributes ==
    { "x_axis", "z_axis", "var_axis", "refresh_time", "check_status",
      "target_enable", "max_area_enable", "max_area" }

Image3DWidget_new_curve(self) ==
    IF "y_axis" \notin Plot3DFrame_attributes
    THEN [ raised |-> "AttributeError", curve |-> NoItem ]
    ELSE [ raised |-> "none",
           curve |-> [ class |-> "Results3DCurve", z |-> self.plot3D_frame.x_axis,
                       var |-> self.plot3D_frame.var_axis ] ]

(***************************************************************************)
(* The widget specification: an Image3DWidget is constructed (frame holds  *)
(* it, with its two frames); then the var column is chosen, curves are     *)
(* asked for and the timers of the two frames fire.                        *)
(***************************************************************************)
ColumnLists == { <<"X", "Y", "Z", "V">>, <<"V", "Z", "X", "Y">>, <<"Z", "V", "Y", "X">> }
RefreshTimes == { Num(200), Num(500), Num(1000) }

InitWidget ==
    /\ \E columns \in ColumnLists : \E z_axis \in {Str("Z"), Str("V")} :
       \E var_axis \in {None, Str("V")} : \E refresh_time \in RefreshTimes :
       \E check_status \in {Bool(TRUE), Bool(FALSE)} :
       \E target_enable \in {Bool(TRUE), Bool(FALSE)} :
       \E outcome \in emit_str_outcomes(refresh_time) :
          frame = Image3DWidget_init(columns, Str("X"), Str("Y"), z_axis, var_axis,
                                     refresh_time, check_status, target_enable,
                                     outcome)
    /\ call = [op |-> "__init__", raised |-> frame.raised]
    /\ item = NoItem
    /\ found = NoCall
    /\ results = [data |-> <<>>]
    /\ InstrIdle

Widget_update_var_column ==
    /\ frame.raised = "none"
    /\ \E index \in 0..(Len(frame.columns) - 1) :
          /\ frame' = Image3DWidget_update_var_column(frame, index)
          /\ call' = [op |-> "update_var_column", index |-> index, raised |-> "none"]
    /\ UNCHANGED <<item, found, results, instrVars>>

Widget_new_curve ==
    /\ frame.raised = "none"
    /\ call' = [ op |-> "new_curve",
                 raised |-> Image3DWidget_new_curve(frame).raised ]
    /\ item' = Image3DWidget_new_curve(frame).curve
    /\ UNCHANGED <<frame, found, results, instrVars>>

\* The timer of one of the two frames fires, `interval` ms after it fired
\* last.
Widget_timer_timeout ==
    /\ frame.raised = "none"
    /\ \E f \in {"image3D_frame", "plot3D_frame"} :
          call' = [ op |-> "timeout", of |-> f, interval |-> frame[f].interval,
                    raised |-> "none" ]
    /\ UNCHANGED <<frame, item, found, results, instrVars>>

NextWidget ==
    \/ Widget_update_var_column
    \/ Widget_new_curve
    \/ Widget_timer_timeout

SpecWidget == InitWidget /\ [][NextWidget]_vars

(***************************************************************************)
(* Further claims about the images (specifications Spec and SpecIdx).      *)
(***************************************************************************)
\* The z-index the row k of the snapshot is binned to by the image.
BinnedTo(self, data, k) ==
    Results3DImage_find_img_index(self, data[k][self.x], data[k][self.y],
                                  data[k][self.z])[3]

\* The var values of the rows of the snapshot binned to the z-index of row k.
SliceValues(self, data, k) ==
    { data[j][self.var] : j \in { i \in 1..Len(data) :
                                    BinnedTo(self, data, i) = BinnedTo(self, data, k) } }

Least(S) == CHOOSE m \in S : \A n \in S : m <= n
Greatest(S) == CHOOSE m \in S : \A n \in S : n <= m

\* C21: Results3DImage.update_data passes to the colour ramp, for each row,
\* (v - min_k) / (max_k - min_k) with min_k and max_k the minimum and maximum
\* of the var column over the rows of the snapshot binned to the same
\* z-index as the row, a value in [0, 1].
C21_SliceNormalised ==
    [][(Refreshed /\ item'.class = "Results3DImage" /\ call'.op = "update_data") =>
          \A k \in DOMAIN call'.ramp :
             LET S == SliceValues(item', results'.data, k)
             IN  /\ call'.ramp[k] = NpDiv(results'.data[k][item'.var] - Least(S),
                                          Greatest(S) - Least(S))
                 /\ call'.ramp[k].den > 0
                 /\ 0 <= call'.ramp[k].num
                 /\ call'.ramp[k].num <= call'.ramp[k].den]_vars


\* C22: every index find_img_index returns, for a coordinate in range, below
\* the start or above the end of its axis, is an index of the pixel array:
\* 0 <= i <= size - 1 with size = ceil((end - start) / step) + 1.
C22_IndexInArray ==
    \A a \in FoundAxes :
        /\ 0 <= a.i
        /\ a.i <= Entries(a.start, a.end, a.step) - 1

\* A call with x inside the range, below its end, rounded up to the last
\* pixel of an axis of several pixels, and y above the end of its axis.
C22_Witness ==
    /\ found.op = "find_img_index"
    /\ item.xstart < found.args[1] /\ found.args[1] < item.xend
    /\ item.xsize > 1
    /\ found.indices[1] = item.xsize - 1
    /\ found.args[2] > item.yend
    /\ found.indices[2] = item.ysize - 1


(***************************************************************************)
(* Further claims about slow_voltage (specification SpecKeithley).  op.now *)
(* is the source voltage the instrument reports during the call, op.steps  *)
(* the steps argument.                                                     *)
(***************************************************************************)
IsVoltageSet(e) == e.dir = "write" /\ e.text.template = "SOUR{ch}:VOLT %g"

\* The voltages of the set commands of a call, in the order sent.
SentVoltages(io) ==
    LET sets == SelectSeq(io, IsVoltageSet)
    IN  [k \in DOMAIN sets |-> sets[k].text.arg.n]

\* C23: slow_voltage in FIX mode sends no voltage set command when the
\* present voltage equals the target; otherwise it sends exactly `steps`
\* voltage set commands, the first the present voltage, the last the target,
\* equally spaced (hence monotonic and between the two).
C23_RampsToTarget ==
    (/\ op.kind = "slow_voltage"
     /\ op.result = Str("FIX")
     /\ op.outcome # "CastError") =>
        LET v == SentVoltages(op.io)
        IN  IF PyEq(op.now, op.arg) THEN v = <<>>
            ELSE /\ Len(v) = op.steps
                 /\ v[1] = op.now.n
                 /\ v[Len(v)] = op.arg.n
                 /\ \A k \in 1..(Len(v) - 1) :
                        (op.steps - 1) * (v[k + 1] - v[k]) = op.arg.n - op.now.n


(***************************************************************************)
(* Further claims about the frames (specification SpecFrame).              *)
(***************************************************************************)
\* C24: with check_status and target_enable both true, the dataUpdated
\* signal of an item is connected to the target handler of the frame at
\* most once, however many timer ticks have elapsed, and each emission of
\* dataUpdated during a tick moves the target exactly once.
C24_ConnectedOnce ==
    /\ []((frame.class # "none" /\ frame.check_status /\ frame.target_enable) =>
             \A k \in DOMAIN frame.items : frame.items[k].connections <= 1)
    /\ [][(/\ SlotRan
           /\ call'.op = "update_curves"
           /\ frame.check_status /\ frame.target_enable) =>
             call'.moved = call'.emissions]_vars


(***************************************************************************)
(* Claims about Image3DWidget (specification SpecWidget).                  *)
(***************************************************************************)
Columns(self) == { Str(self.columns[i]) : i \in DOMAIN self.columns }

\* C25: the Plot3DFrame of an Image3DWidget has the refresh_time and the
\* check_status of the widget, as its Image3DFrame has, so both timers run
\* on the same interval; its bottom axis is the widget's z_axis and its var
\* axis is the name of a data column.
C25_FramesFromSettings ==
    frame.class = "Image3DWidget" =>
        /\ frame.raised = "none"
        /\ PyEq(frame.image3D_frame.refresh_time, frame.refresh_time)
        /\ PyEq(frame.image3D_frame.check_status, frame.check_status)
        /\ PyEq(frame.plot3D_frame.refresh_time, frame.refresh_time)
        /\ PyEq(frame.plot3D_frame.check_status, frame.check_status)
        /\ frame.plot3D_frame.interval = frame.image3D_frame.interval
        /\ frame.plot3D_frame.bottom = frame.z_axis
        /\ frame.plot3D_frame.var_axis \in Columns(frame)

=============================================================================
